---------------------------- MODULE Spec2Model ----------------------------
(***************************************************************************)
(* A model of i3ipc-rs: the "i3-ipc" framing codec (src/src/lib.rs), the   *)
(* request/reply client I3Connection, the event listener I3EventListener   *)
(* and the typed decoders of src/src/common.rs and src/src/event.rs.       *)
(*                                                                         *)
(* Text is a sequence of Unicode code points, the wire is a sequence of    *)
(* bytes (0..255).  Every conversion between the two is computed the way   *)
(* the code computes it.                                                   *)
(***************************************************************************)
EXTENDS Integers, Sequences, FiniteSets, TLC

VARIABLES
    features,   \* the cargo features the crate was built with
    role,       \* which object owns the stream: "conn", "listener", "loopback"
    pc,         \* position of the caller: "idle", "awaitReply", "aborted"
    cur,        \* the request in flight (written, reply not yet read)
    tx,         \* every frame the client wrote to the stream, in order
    rx,         \* bytes the peer wrote that the client has not read yet
    chan,       \* "open", or "closed" once the peer has closed its end
    wire,       \* every envelope put on the wire towards the client, in order
    log,        \* one record per returned (or aborted) operation, in order
    stack       \* the calls of a formatting in progress, the innermost last

vars == <<features, role, pc, cur, tx, rx, chan, wire, log, stack>>

----------------------------------------------------------------------------
(* Bounds of the model. *)

\* longest payload text (in characters) drawn for the codec round trip
MaxLen == 2
\* number of frames in flight at once on the loopback channel
MaxFrames == 2
\* number of operations the caller starts on one connection
MaxOps == 2
\* number of envelopes (or runs of stray bytes) the peer writes
MaxWire == 2
\* number of those that are not what the protocol asks for
MaxFaults == 1
\* the longest reply array of run_command the peer sends
MaxOutcomes == 2
MaxStack == 12

----------------------------------------------------------------------------
(* Sequences and bytes. *)

Range(s) == {s[i] : i \in DOMAIN s}

RECURSIVE Concat(_)
Concat(ss) == IF ss = <<>> THEN <<>> ELSE Head(ss) \o Concat(Tail(ss))

Drop(s, n) == SubSeq(s, n + 1, Len(s))
Take(s, n) == SubSeq(s, 1, n)

\* A u32 is the pair <<high 16 bits, low 16 bits>>: its value is
\* 65536 * u[1] + u[2], which the integers of the model checker cannot hold
\* from 2^31 on.
Half == 65536
U32(n) == << n \div Half, n % Half >>

\* byteorder::WriteBytesExt::write_u32::<LittleEndian> of a u32
write_u32_le(u) == << u[2] % 256, u[2] \div 256, u[1] % 256, u[1] \div 256 >>

\* byteorder::ReadBytesExt::read_u32::<LittleEndian> of four bytes
read_u32_le(b) == << b[3] + 256 * b[4], b[1] + 256 * b[2] >>

\* `x as u32` of a usize: the low 32 bits
as_u32(n) == << (n \div Half) % Half, n % Half >>

----------------------------------------------------------------------------
(* UTF-8: str::bytes() and String::from_utf8_lossy. *)

\* the code point U+FFFD REPLACEMENT CHARACTER
ReplacementChar == 65533

\* the UTF-8 encoding of one Unicode scalar value
Utf8Char(c) ==
    IF c < 128 THEN << c >>
    ELSE IF c < 2048 THEN << 192 + (c \div 64), 128 + (c % 64) >>
    ELSE IF c < 65536 THEN
        << 224 + (c \div 4096), 128 + ((c \div 64) % 64), 128 + (c % 64) >>
    ELSE << 240 + (c \div 262144), 128 + ((c \div 4096) % 64),
            128 + ((c \div 64) % 64), 128 + (c % 64) >>

\* payload.bytes(): the bytes of a &str, the encodings of its characters in
\* order (computed by halves to keep the evaluation shallow)
RECURSIVE str_bytes(_)
str_bytes(s) ==
    IF s = <<>> THEN <<>>
    ELSE IF Len(s) = 1 THEN Utf8Char(s[1])
    ELSE str_bytes(Take(s, Len(s) \div 2)) \o str_bytes(Drop(s, Len(s) \div 2))

\* payload.len(): the length of a &str in bytes
str_len(s) == Len(str_bytes(s))

IsCont(b, i, lo, hi) == i <= Len(b) /\ b[i] >= lo /\ b[i] <= hi

\* The first chunk of a byte string as from_utf8_lossy sees it: n bytes that
\* decode to the scalar c, or n bytes of an invalid sequence (one U+FFFD).
Utf8Chunk(b) ==
    LET b1 == b[1]
        Bad(n) == [n |-> n, c |-> ReplacementChar]
        lo2 == IF b1 = 224 THEN 160 ELSE IF b1 = 240 THEN 144 ELSE 128
        hi2 == IF b1 = 237 THEN 159 ELSE IF b1 = 244 THEN 143 ELSE 191
    IN  IF b1 < 128 THEN [n |-> 1, c |-> b1]
        ELSE IF b1 >= 194 /\ b1 <= 223 THEN
            IF IsCont(b, 2, 128, 191)
            THEN [n |-> 2, c |-> (b1 - 192) * 64 + (b[2] - 128)]
            ELSE Bad(1)
        ELSE IF b1 >= 224 /\ b1 <= 239 THEN
            IF ~IsCont(b, 2, lo2, hi2) THEN Bad(1)
            ELSE IF ~IsCont(b, 3, 128, 191) THEN Bad(2)
            ELSE [n |-> 3,
                  c |-> (b1 - 224) * 4096 + (b[2] - 128) * 64 + (b[3] - 128)]
        ELSE IF b1 >= 240 /\ b1 <= 244 THEN
            IF ~IsCont(b, 2, lo2, hi2) THEN Bad(1)
            ELSE IF ~IsCont(b, 3, 128, 191) THEN Bad(2)
            ELSE IF ~IsCont(b, 4, 128, 191) THEN Bad(3)
            ELSE [n |-> 4,
                  c |-> (b1 - 240) * 262144 + (b[2] - 128) * 4096
                        + (b[3] - 128) * 64 + (b[4] - 128)]
        ELSE Bad(1)

\* every byte taken for a character of its own
from_utf8_lossy_mut_bytes(b) == b

\* the chunks of a byte string, one after the other
RECURSIVE Utf8Chunks(_)
Utf8Chunks(b) ==
    IF b = <<>> THEN <<>>
    ELSE LET k == Utf8Chunk(b) IN << k.c >> \o Utf8Chunks(Drop(b, k.n))

\* String::from_utf8_lossy(bytes).  A byte below 128 always begins a chunk
\* of its own, so a long string is cut at such a byte and its two parts are
\* decoded apart (this keeps the evaluation shallow, the result is that of
\* Utf8Chunks).
RECURSIVE from_utf8_lossy(_)
from_utf8_lossy(b) ==
    IF Len(b) <= 16 THEN Utf8Chunks(b)
    ELSE LET cuts == {i \in (Len(b) \div 2 + 1) .. Len(b) : b[i] < 128} IN
         IF cuts = {} THEN Utf8Chunks(b)
         ELSE LET i == CHOOSE c \in cuts : TRUE IN
              from_utf8_lossy(Take(b, i - 1)) \o from_utf8_lossy(Drop(b, i - 1))

----------------------------------------------------------------------------
(* The framing codec: I3Funcs for UnixStream. *)

\* the text "i3-ipc"
MagicString == << 105, 51, 45, 105, 112, 99 >>

\* send_i3_message: the buffer `bytes` handed to write_all
send_i3_message_mut_len(message_type, payload) ==
    str_bytes(MagicString) \o write_u32_le(as_u32(Len(payload)))
        \o write_u32_le(message_type) \o str_bytes(payload)

send_i3_message(message_type, payload) ==
    str_bytes(MagicString) \o write_u32_le(as_u32(str_len(payload)))
        \o write_u32_le(message_type) \o str_bytes(payload)

\* read_exact / read_u32 of n bytes from a stream holding `buf`, whose peer
\* has closed its end iff `eof`: the bytes, an error (the bytes that were
\* there are consumed), or a read that does not return yet.
read_exact(buf, eof, n) ==
    IF Len(buf) >= n THEN [st |-> "ok", data |-> Take(buf, n), rest |-> Drop(buf, n)]
    ELSE IF eof THEN [st |-> "err", data |-> <<>>, rest |-> <<>>]
    ELSE [st |-> "block", data |-> <<>>, rest |-> buf]

\* the payload handed over and left in the stream
read_payload_mut_leave(buf, eof, payload_len) ==
    IF Len(buf) >= payload_len[2]
    THEN [st |-> "ok", data |-> Take(buf, payload_len[2]), rest |-> buf]
    ELSE [st |-> "block", data |-> <<>>, rest |-> buf]

\* read_exact(&mut payload_data) with payload_data of `payload_len as usize`
\* bytes; a stream never holds 2^31 bytes
read_payload(buf, eof, payload_len) ==
    IF payload_len[1] >= 32768
    THEN (IF eof THEN [st |-> "err", data |-> <<>>, rest |-> <<>>]
          ELSE [st |-> "block", data |-> <<>>, rest |-> buf])
    ELSE read_exact(buf, eof, Half * payload_len[1] + payload_len[2])

IoErr(rest, why) ==
    [st |-> "err", why |-> why, ty |-> U32(0), payload |-> <<>>, rest |-> rest]
IoBlock(buf) ==
    [st |-> "block", why |-> "", ty |-> U32(0), payload |-> <<>>, rest |-> buf]

\* receive_i3_message with the magic comparison left out
receive_i3_message_mut_nomagic(buf, eof) ==
    LET m == read_exact(buf, eof, 6) IN
    IF m.st = "block" THEN IoBlock(buf)
    ELSE IF m.st = "err" THEN IoErr(m.rest, "eof")
    ELSE
    LET l == read_exact(m.rest, eof, 4) IN
    IF l.st = "block" THEN IoBlock(buf)
    ELSE IF l.st = "err" THEN IoErr(l.rest, "eof")
    ELSE
    LET t == read_exact(l.rest, eof, 4) IN
    IF t.st = "block" THEN IoBlock(buf)
    ELSE IF t.st = "err" THEN IoErr(t.rest, "eof")
    ELSE
    LET p == read_payload(t.rest, eof, read_u32_le(l.data)) IN
    IF p.st = "block" THEN IoBlock(buf)
    ELSE IF p.st = "err" THEN IoErr(p.rest, "eof")
    ELSE [st |-> "ok", why |-> "", ty |-> read_u32_le(t.data),
          payload |-> from_utf8_lossy(p.data), rest |-> p.rest]

\* receive_i3_message: (message type, payload), an io::Error, or blocked
receive_i3_message(buf, eof) ==
    LET m == read_exact(buf, eof, 6) IN
    IF m.st = "block" THEN IoBlock(buf)
    ELSE IF m.st = "err" THEN IoErr(m.rest, "eof")
    ELSE IF from_utf8_lossy(m.data) # MagicString THEN IoErr(m.rest, "magic")
    ELSE
    LET l == read_exact(m.rest, eof, 4) IN
    IF l.st = "block" THEN IoBlock(buf)
    ELSE IF l.st = "err" THEN IoErr(l.rest, "eof")
    ELSE
    LET t == read_exact(l.rest, eof, 4) IN
    IF t.st = "block" THEN IoBlock(buf)
    ELSE IF t.st = "err" THEN IoErr(t.rest, "eof")
    ELSE
    LET p == read_payload(t.rest, eof, read_u32_le(l.data)) IN
    IF p.st = "block" THEN IoBlock(buf)
    ELSE IF p.st = "err" THEN IoErr(p.rest, "eof")
    ELSE [st |-> "ok", why |-> "", ty |-> read_u32_le(t.data),
          payload |-> from_utf8_lossy(p.data), rest |-> p.rest]

----------------------------------------------------------------------------
(* serde_json: json::Value and json::from_str.                             *)
(*                                                                         *)
(* A json::Value is a tagged tuple:                                        *)
(*   <<"null">>  <<"bool", b>>                                             *)
(*   <<"num", "int", negative, digits>>                                    *)
(*   <<"num", "float", negative, integer digits, fraction digits>>         *)
(*   <<"str", text>>  <<"arr", <<v1, ..., vn>> >>                          *)
(*   <<"obj", << <<k1, v1>>, ..., <<kn, vn>> >> >>  keys ascending, unique *)
(* (serde_json's Map is a BTreeMap: one entry per key, iterated in key     *)
(* order; a repeated key keeps the last value).                            *)
(* An Option is <<"None">> or <<"Some", x>>.                               *)

JNull == << "null" >>
JBool(b) == << "bool", b >>
JNum(neg, digits) == << "num", "int", neg, digits >>
JFloat(neg, int, frac) == << "num", "float", neg, int, frac >>
JStr(s) == << "str", s >>
JArr(xs) == << "arr", xs >>
JObj(kvs) == << "obj", kvs >>

None == << "None" >>
Some(x) == << "Some", x >>
IsSome(o) == o[1] = "Some"
Unwrap(o) == o[2]

\* String's Ord: lexicographic order of the texts
RECURSIVE StrLess(_, _)
StrLess(a, b) ==
    IF b = <<>> THEN FALSE
    ELSE IF a = <<>> THEN TRUE
    ELSE IF Head(a) # Head(b) THEN Head(a) < Head(b)
    ELSE StrLess(Tail(a), Tail(b))

\* Map::insert(k, v) on the sorted entries of a map
RECURSIVE MapInsert(_, _, _)
MapInsert(kvs, k, v) ==
    IF kvs = <<>> THEN << <<k, v>> >>
    ELSE IF Head(kvs)[1] = k THEN << <<k, v>> >> \o Tail(kvs)
    ELSE IF StrLess(k, Head(kvs)[1]) THEN << <<k, v>> >> \o kvs
    ELSE << Head(kvs) >> \o MapInsert(Tail(kvs), k, v)

\* Map::get(k) on the entries of a map
RECURSIVE MapGet(_, _)
MapGet(kvs, k) ==
    IF kvs = <<>> THEN None
    ELSE IF Head(kvs)[1] = k THEN Some(Head(kvs)[2])
    ELSE MapGet(Tail(kvs), k)

JsonWs == {32, 9, 10, 13}
Digits == 48 .. 57

RECURSIVE SkipWs(_, _)
SkipWs(s, i) == IF i <= Len(s) /\ s[i] \in JsonWs THEN SkipWs(s, i + 1) ELSE i

PFail(i) == [ok |-> FALSE, v |-> JNull, i |-> i]
POk(v, i) == [ok |-> TRUE, v |-> v, i |-> i]

HasAt(s, i, lit) == i + Len(lit) - 1 <= Len(s) /\ SubSeq(s, i, i + Len(lit) - 1) = lit

\* the text of a string literal from the character after its opening quote;
\* of the escapes only \" \\ and \/ are modelled (any other is rejected)
RECURSIVE ScanString(_, _, _)
ScanString(s, j, acc) ==
    IF j > Len(s) THEN PFail(j)
    ELSE IF s[j] = 34 THEN POk(acc, j + 1)
    ELSE IF s[j] = 92 THEN
        IF j + 1 <= Len(s) /\ s[j + 1] \in {34, 92, 47}
        THEN ScanString(s, j + 2, Append(acc, s[j + 1]))
        ELSE PFail(j)
    ELSE IF s[j] < 32 THEN PFail(j)
    ELSE ScanString(s, j + 1, Append(acc, s[j]))

RECURSIVE ScanDigits(_, _, _)
ScanDigits(s, j, acc) ==
    IF j <= Len(s) /\ s[j] \in Digits
    THEN ScanDigits(s, j + 1, Append(acc, s[j] - 48))
    ELSE [ds |-> acc, i |-> j]

\* a number: -? (0 | [1-9][0-9]*) (. [0-9]+)?   (exponents are not modelled)
ParseNumber(s, i) ==
    LET neg == s[i] = 45
        j == IF neg THEN i + 1 ELSE i
        ip == ScanDigits(s, j, <<>>)
    IN  IF ip.ds = <<>> THEN PFail(j)
        ELSE IF Len(ip.ds) > 1 /\ ip.ds[1] = 0 THEN PFail(j)
        ELSE IF ip.i <= Len(s) /\ s[ip.i] = 46 THEN
            LET fp == ScanDigits(s, ip.i + 1, <<>>) IN
            IF fp.ds = <<>> THEN PFail(fp.i)
            ELSE POk(JFloat(neg, ip.ds, fp.ds), fp.i)
        ELSE IF ip.i <= Len(s) /\ s[ip.i] \in {101, 69} THEN PFail(ip.i)
        ELSE IF neg /\ ip.ds = <<0>> THEN POk(JFloat(TRUE, <<0>>, <<0>>), ip.i)
        ELSE POk(JNum(neg, ip.ds), ip.i)

RECURSIVE ParseValue(_, _), ParseElems(_, _, _), ParseMembers(_, _, _)

\* one JSON value starting at or after index i
ParseValue(s, i0) ==
    LET i == SkipWs(s, i0) IN
    IF i > Len(s) THEN PFail(i)
    ELSE IF s[i] = 34 THEN
        LET r == ScanString(s, i + 1, <<>>) IN
        IF r.ok THEN POk(JStr(r.v), r.i) ELSE PFail(r.i)
    ELSE IF s[i] = 45 \/ s[i] \in Digits THEN ParseNumber(s, i)
    ELSE IF HasAt(s, i, <<116, 114, 117, 101>>) THEN POk(JBool(TRUE), i + 4)
    ELSE IF HasAt(s, i, <<102, 97, 108, 115, 101>>) THEN POk(JBool(FALSE), i + 5)
    ELSE IF HasAt(s, i, <<110, 117, 108, 108>>) THEN POk(JNull, i + 4)
    ELSE IF s[i] = 91 THEN
        LET j == SkipWs(s, i + 1) IN
        IF j <= Len(s) /\ s[j] = 93 THEN POk(JArr(<<>>), j + 1)
        ELSE ParseElems(s, j, <<>>)
    ELSE IF s[i] = 123 THEN
        LET j == SkipWs(s, i + 1) IN
        IF j <= Len(s) /\ s[j] = 125 THEN POk(JObj(<<>>), j + 1)
        ELSE ParseMembers(s, j, <<>>)
    ELSE PFail(i)

\* the elements of an array, from its next element to the closing bracket
ParseElems(s, i, acc) ==
    LET r == ParseValue(s, i) IN
    IF ~r.ok THEN PFail(r.i)
    ELSE LET j == SkipWs(s, r.i) IN
         IF j > Len(s) THEN PFail(j)
         ELSE IF s[j] = 93 THEN POk(JArr(Append(acc, r.v)), j + 1)
         ELSE IF s[j] = 44 THEN ParseElems(s, j + 1, Append(acc, r.v))
         ELSE PFail(j)

\* the members of an object, from its next key to the closing brace
ParseMembers(s, i0, acc) ==
    LET i == SkipWs(s, i0) IN
    IF i > Len(s) \/ s[i] # 34 THEN PFail(i)
    ELSE LET k == ScanString(s, i + 1, <<>>) IN
         IF ~k.ok THEN PFail(k.i)
         ELSE LET c == SkipWs(s, k.i) IN
              IF c > Len(s) \/ s[c] # 58 THEN PFail(c)
              ELSE LET r == ParseValue(s, c + 1) IN
                   IF ~r.ok THEN PFail(r.i)
                   ELSE LET j == SkipWs(s, r.i) IN
                        IF j > Len(s) THEN PFail(j)
                        ELSE IF s[j] = 125
                            THEN POk(JObj(MapInsert(acc, k.v, r.v)), j + 1)
                        ELSE IF s[j] = 44
                            THEN ParseMembers(s, j + 1, MapInsert(acc, k.v, r.v))
                        ELSE PFail(j)

\* json::from_str::<json::Value>(s): Ok(value), or Err when the text is not
\* one JSON value followed only by whitespace
from_str(s) ==
    LET r == ParseValue(s, 1) IN
    IF r.ok /\ SkipWs(s, r.i) > Len(s) THEN [ok |-> TRUE, v |-> r.v]
    ELSE [ok |-> FALSE, v |-> JNull]

\* Value accessors
IsStr(v) == v[1] = "str"
IsArr(v) == v[1] = "arr"
IsObj(v) == v[1] = "obj"
IsBool(v) == v[1] = "bool"
IsNull(v) == v[1] = "null"
IsNum(v) == v[1] = "num"

\* Value::get(key): Some only on an object that has the key
get(v, key) == IF IsObj(v) THEN MapGet(v[2], key) ELSE None
as_str(v) == IF IsStr(v) THEN Some(v[2]) ELSE None
as_bool(v) == IF IsBool(v) THEN Some(v[2]) ELSE None
as_array(v) == IF IsArr(v) THEN Some(v[2]) ELSE None
as_object(v) == IF IsObj(v) THEN Some(v[2]) ELSE None
\* the order of two numerals without leading zeros
RECURSIVE DigitsLess(_, _)
DigitsLess(a, b) ==
    IF Len(a) # Len(b) THEN Len(a) < Len(b)
    ELSE IF a = <<>> THEN FALSE
    ELSE IF Head(a) # Head(b) THEN Head(a) < Head(b)
    ELSE DigitsLess(Tail(a), Tail(b))

\* i64::MAX = 9223372036854775807 and -i64::MIN = 9223372036854775808
I64MaxDigits == << 9, 2, 2, 3, 3, 7, 2, 0, 3, 6, 8, 5, 4, 7, 7, 5, 8, 0, 7 >>
I64MinDigits == << 9, 2, 2, 3, 3, 7, 2, 0, 3, 6, 8, 5, 4, 7, 7, 5, 8, 0, 8 >>

\* An i64 is the pair <<negative, digits>> of its decimal numeral.
\* Value::as_i64: Some for an integer that fits an i64
as_i64(v) ==
    IF IsNum(v) /\ v[2] = "int"
       /\ ~DigitsLess(IF v[3] THEN I64MinDigits ELSE I64MaxDigits, v[4])
    THEN Some(<< v[3], v[4] >>) ELSE None
\* Number::as_f64: every number has one; an integer n is n.0
as_f64(v) ==
    IF ~IsNum(v) THEN None
    ELSE IF v[2] = "int" THEN Some(<< v[3], v[4], <<0>> >>)
    ELSE Some(<< v[3], v[4], v[5] >>)

\* the low 32 bits of a numeral, as a u32
RECURSIVE DigitsLow32(_, _)
DigitsLow32(ds, acc) ==
    IF ds = <<>> THEN acc
    ELSE LET lo == acc[2] * 10 + Head(ds)
             hi == acc[1] * 10 + lo \div Half
         IN  DigitsLow32(Tail(ds), << hi % Half, lo % Half >>)

\* the two's complement of a u32
Neg32(u) ==
    IF u[2] = 0 THEN << (Half - u[1]) % Half, 0 >>
    ELSE << Half - 1 - u[1], Half - u[2] >>

\* an i64 brought into the range of an i32 by saturation
as_i32_mut_saturate(n) ==
    IF ~n[1] /\ DigitsLess(<< 2, 1, 4, 7, 4, 8, 3, 6, 4, 7 >>, n[2]) THEN 2147483647
    ELSE IF n[1] /\ DigitsLess(<< 2, 1, 4, 7, 4, 8, 3, 6, 4, 7 >>, n[2])
        THEN 0 - 2147483647 - 1
    ELSE LET m == DigitsLow32(n[2], << 0, 0 >>)
             u == IF n[1] THEN Neg32(m) ELSE m
         IN  IF u[1] >= 32768 THEN (u[1] - Half) * Half + u[2] ELSE u[1] * Half + u[2]

\* `x as i32` of an i64: its low 32 bits, read as a signed number
as_i32(n) ==
    LET m == DigitsLow32(n[2], << 0, 0 >>)
        u == IF n[1] THEN Neg32(m) ELSE m
    IN  IF u[1] >= 32768 THEN (u[1] - Half) * Half + u[2] ELSE u[1] * Half + u[2]

\* json::from_str::<Vec<String>>(s): Ok only for an array of strings
from_str_vec_string(s) ==
    LET r == from_str(s) IN
    IF r.ok /\ IsArr(r.v) /\ \A k \in DOMAIN r.v[2] : IsStr(r.v[2][k])
    THEN [ok |-> TRUE, v |-> [k \in DOMAIN r.v[2] |-> r.v[2][k][2]]]
    ELSE [ok |-> FALSE, v |-> <<>>]

----------------------------------------------------------------------------
(* The string literals of the source, as texts. *)

SourceLiterals ==
    "focus" :> << 102, 111, 99, 117, 115 >> @@
    "nodes" :> << 110, 111, 100, 101, 115 >> @@
    "floating_nodes" :> << 102, 108, 111, 97, 116, 105, 110, 103, 95, 110, 111, 100, 101, 115 >> @@
    "id" :> << 105, 100 >> @@
    "name" :> << 110, 97, 109, 101 >> @@
    "type" :> << 116, 121, 112, 101 >> @@
    "border" :> << 98, 111, 114, 100, 101, 114 >> @@
    "current_border_width" :> << 99, 117, 114, 114, 101, 110, 116, 95, 98, 111, 114, 100, 101, 114, 95, 119, 105, 100, 116, 104 >> @@
    "layout" :> << 108, 97, 121, 111, 117, 116 >> @@
    "percent" :> << 112, 101, 114, 99, 101, 110, 116 >> @@
    "rect" :> << 114, 101, 99, 116 >> @@
    "window_rect" :> << 119, 105, 110, 100, 111, 119, 95, 114, 101, 99, 116 >> @@
    "deco_rect" :> << 100, 101, 99, 111, 95, 114, 101, 99, 116 >> @@
    "geometry" :> << 103, 101, 111, 109, 101, 116, 114, 121 >> @@
    "window" :> << 119, 105, 110, 100, 111, 119 >> @@
    "window_properties" :> << 119, 105, 110, 100, 111, 119, 95, 112, 114, 111, 112, 101, 114, 116, 105, 101, 115 >> @@
    "urgent" :> << 117, 114, 103, 101, 110, 116 >> @@
    "focused" :> << 102, 111, 99, 117, 115, 101, 100 >> @@
    "x" :> << 120 >> @@
    "y" :> << 121 >> @@
    "width" :> << 119, 105, 100, 116, 104 >> @@
    "height" :> << 104, 101, 105, 103, 104, 116 >> @@
    "success" :> << 115, 117, 99, 99, 101, 115, 115 >> @@
    "error" :> << 101, 114, 114, 111, 114 >> @@
    "num" :> << 110, 117, 109 >> @@
    "visible" :> << 118, 105, 115, 105, 98, 108, 101 >> @@
    "output" :> << 111, 117, 116, 112, 117, 116 >> @@
    "active" :> << 97, 99, 116, 105, 118, 101 >> @@
    "primary" :> << 112, 114, 105, 109, 97, 114, 121 >> @@
    "current_workspace" :> << 99, 117, 114, 114, 101, 110, 116, 95, 119, 111, 114, 107, 115, 112, 97, 99, 101 >> @@
    "make" :> << 109, 97, 107, 101 >> @@
    "model" :> << 109, 111, 100, 101, 108 >> @@
    "serial" :> << 115, 101, 114, 105, 97, 108 >> @@
    "scale" :> << 115, 99, 97, 108, 101 >> @@
    "subpixel_hinting" :> << 115, 117, 98, 112, 105, 120, 101, 108, 95, 104, 105, 110, 116, 105, 110, 103 >> @@
    "transform" :> << 116, 114, 97, 110, 115, 102, 111, 114, 109 >> @@
    "modes" :> << 109, 111, 100, 101, 115 >> @@
    "current_mode" :> << 99, 117, 114, 114, 101, 110, 116, 95, 109, 111, 100, 101 >> @@
    "dpms" :> << 100, 112, 109, 115 >> @@
    "refresh" :> << 114, 101, 102, 114, 101, 115, 104 >> @@
    "major" :> << 109, 97, 106, 111, 114 >> @@
    "minor" :> << 109, 105, 110, 111, 114 >> @@
    "patch" :> << 112, 97, 116, 99, 104 >> @@
    "human_readable" :> << 104, 117, 109, 97, 110, 95, 114, 101, 97, 100, 97, 98, 108, 101 >> @@
    "loaded_config_file_name" :> << 108, 111, 97, 100, 101, 100, 95, 99, 111, 110, 102, 105, 103, 95, 102, 105, 108, 101, 95, 110, 97, 109, 101 >> @@
    "config" :> << 99, 111, 110, 102, 105, 103 >> @@
    "change" :> << 99, 104, 97, 110, 103, 101 >> @@
    "current" :> << 99, 117, 114, 114, 101, 110, 116 >> @@
    "old" :> << 111, 108, 100 >> @@
    "container" :> << 99, 111, 110, 116, 97, 105, 110, 101, 114 >> @@
    "binding" :> << 98, 105, 110, 100, 105, 110, 103 >> @@
    "command" :> << 99, 111, 109, 109, 97, 110, 100 >> @@
    "event_state_mask" :> << 101, 118, 101, 110, 116, 95, 115, 116, 97, 116, 101, 95, 109, 97, 115, 107 >> @@
    "input_code" :> << 105, 110, 112, 117, 116, 95, 99, 111, 100, 101 >> @@
    "symbol" :> << 115, 121, 109, 98, 111, 108 >> @@
    "input_type" :> << 105, 110, 112, 117, 116, 95, 116, 121, 112, 101 >> @@
    "mode" :> << 109, 111, 100, 101 >> @@
    "position" :> << 112, 111, 115, 105, 116, 105, 111, 110 >> @@
    "status_command" :> << 115, 116, 97, 116, 117, 115, 95, 99, 111, 109, 109, 97, 110, 100 >> @@
    "font" :> << 102, 111, 110, 116 >> @@
    "workspace_buttons" :> << 119, 111, 114, 107, 115, 112, 97, 99, 101, 95, 98, 117, 116, 116, 111, 110, 115 >> @@
    "binding_mode_indicator" :> << 98, 105, 110, 100, 105, 110, 103, 95, 109, 111, 100, 101, 95, 105, 110, 100, 105, 99, 97, 116, 111, 114 >> @@
    "verbose" :> << 118, 101, 114, 98, 111, 115, 101 >> @@
    "colors" :> << 99, 111, 108, 111, 114, 115 >> @@
    "root" :> << 114, 111, 111, 116 >> @@
    "con" :> << 99, 111, 110 >> @@
    "floating_con" :> << 102, 108, 111, 97, 116, 105, 110, 103, 95, 99, 111, 110 >> @@
    "workspace" :> << 119, 111, 114, 107, 115, 112, 97, 99, 101 >> @@
    "dockarea" :> << 100, 111, 99, 107, 97, 114, 101, 97 >> @@
    "normal" :> << 110, 111, 114, 109, 97, 108 >> @@
    "none" :> << 110, 111, 110, 101 >> @@
    "pixel" :> << 112, 105, 120, 101, 108 >> @@
    "splith" :> << 115, 112, 108, 105, 116, 104 >> @@
    "splitv" :> << 115, 112, 108, 105, 116, 118 >> @@
    "stacked" :> << 115, 116, 97, 99, 107, 101, 100 >> @@
    "tabbed" :> << 116, 97, 98, 98, 101, 100 >> @@
    "class" :> << 99, 108, 97, 115, 115 >> @@
    "instance" :> << 105, 110, 115, 116, 97, 110, 99, 101 >> @@
    "window_role" :> << 119, 105, 110, 100, 111, 119, 95, 114, 111, 108, 101 >> @@
    "title" :> << 116, 105, 116, 108, 101 >> @@
    "transient_for" :> << 116, 114, 97, 110, 115, 105, 101, 110, 116, 95, 102, 111, 114 >> @@
    "machine" :> << 109, 97, 99, 104, 105, 110, 101 >> @@
    "background" :> << 98, 97, 99, 107, 103, 114, 111, 117, 110, 100 >> @@
    "statusline" :> << 115, 116, 97, 116, 117, 115, 108, 105, 110, 101 >> @@
    "separator" :> << 115, 101, 112, 97, 114, 97, 116, 111, 114 >> @@
    "focused_background" :> << 102, 111, 99, 117, 115, 101, 100, 95, 98, 97, 99, 107, 103, 114, 111, 117, 110, 100 >> @@
    "focused_statusline" :> << 102, 111, 99, 117, 115, 101, 100, 95, 115, 116, 97, 116, 117, 115, 108, 105, 110, 101 >> @@
    "focused_separator" :> << 102, 111, 99, 117, 115, 101, 100, 95, 115, 101, 112, 97, 114, 97, 116, 111, 114 >> @@
    "focused_workspace_text" :> << 102, 111, 99, 117, 115, 101, 100, 95, 119, 111, 114, 107, 115, 112, 97, 99, 101, 95, 116, 101, 120, 116 >> @@
    "focused_workspace_bg" :> << 102, 111, 99, 117, 115, 101, 100, 95, 119, 111, 114, 107, 115, 112, 97, 99, 101, 95, 98, 103 >> @@
    "focused_workspace_border" :> << 102, 111, 99, 117, 115, 101, 100, 95, 119, 111, 114, 107, 115, 112, 97, 99, 101, 95, 98, 111, 114, 100, 101, 114 >> @@
    "active_workspace_text" :> << 97, 99, 116, 105, 118, 101, 95, 119, 111, 114, 107, 115, 112, 97, 99, 101, 95, 116, 101, 120, 116 >> @@
    "active_workspace_bg" :> << 97, 99, 116, 105, 118, 101, 95, 119, 111, 114, 107, 115, 112, 97, 99, 101, 95, 98, 103 >> @@
    "active_workspace_border" :> << 97, 99, 116, 105, 118, 101, 95, 119, 111, 114, 107, 115, 112, 97, 99, 101, 95, 98, 111, 114, 100, 101, 114 >> @@
    "inactive_workspace_text" :> << 105, 110, 97, 99, 116, 105, 118, 101, 95, 119, 111, 114, 107, 115, 112, 97, 99, 101, 95, 116, 101, 120, 116 >> @@
    "inactive_workspace_bg" :> << 105, 110, 97, 99, 116, 105, 118, 101, 95, 119, 111, 114, 107, 115, 112, 97, 99, 101, 95, 98, 103 >> @@
    "inactive_workspace_border" :> << 105, 110, 97, 99, 116, 105, 118, 101, 95, 119, 111, 114, 107, 115, 112, 97, 99, 101, 95, 98, 111, 114, 100, 101, 114 >> @@
    "urgent_workspace_text" :> << 117, 114, 103, 101, 110, 116, 95, 119, 111, 114, 107, 115, 112, 97, 99, 101, 95, 116, 101, 120, 116 >> @@
    "urgent_workspace_bg" :> << 117, 114, 103, 101, 110, 116, 95, 119, 111, 114, 107, 115, 112, 97, 99, 101, 95, 98, 103 >> @@
    "urgent_workspace_border" :> << 117, 114, 103, 101, 110, 116, 95, 119, 111, 114, 107, 115, 112, 97, 99, 101, 95, 98, 111, 114, 100, 101, 114 >> @@
    "binding_mode_text" :> << 98, 105, 110, 100, 105, 110, 103, 95, 109, 111, 100, 101, 95, 116, 101, 120, 116 >> @@
    "binding_mode_bg" :> << 98, 105, 110, 100, 105, 110, 103, 95, 109, 111, 100, 101, 95, 98, 103 >> @@
    "binding_mode_border" :> << 98, 105, 110, 100, 105, 110, 103, 95, 109, 111, 100, 101, 95, 98, 111, 114, 100, 101, 114 >> @@
    "init" :> << 105, 110, 105, 116 >> @@
    "empty" :> << 101, 109, 112, 116, 121 >> @@
    "rename" :> << 114, 101, 110, 97, 109, 101 >> @@
    "reload" :> << 114, 101, 108, 111, 97, 100 >> @@
    "move" :> << 109, 111, 118, 101 >> @@
    "restored" :> << 114, 101, 115, 116, 111, 114, 101, 100 >> @@
    "unspecified" :> << 117, 110, 115, 112, 101, 99, 105, 102, 105, 101, 100 >> @@
    "new" :> << 110, 101, 119 >> @@
    "close" :> << 99, 108, 111, 115, 101 >> @@
    "fullscreen_mode" :> << 102, 117, 108, 108, 115, 99, 114, 101, 101, 110, 95, 109, 111, 100, 101 >> @@
    "floating" :> << 102, 108, 111, 97, 116, 105, 110, 103 >> @@
    "mark" :> << 109, 97, 114, 107 >> @@
    "run" :> << 114, 117, 110 >> @@
    "keyboard" :> << 107, 101, 121, 98, 111, 97, 114, 100 >> @@
    "mouse" :> << 109, 111, 117, 115, 101 >> @@
    "restart" :> << 114, 101, 115, 116, 97, 114, 116 >> @@
    "exit" :> << 101, 120, 105, 116 >> @@
    "barconfig_update" :> << 98, 97, 114, 99, 111, 110, 102, 105, 103, 95, 117, 112, 100, 97, 116, 101 >> @@
    "shutdown" :> << 115, 104, 117, 116, 100, 111, 119, 110 >>

\* the text of the source literal "name"
Lit(name) == SourceLiterals[name]

----------------------------------------------------------------------------
(* The typed decoders.  A decoder that can panic (unwrap of None,           *)
(* unreachable!) is a pair: X_ok(j) says that it returns, X(j) is what it   *)
(* returns when it does.                                                    *)

AllFeatures == {"i3-4-12", "i3-4-13", "i3-4-14", "sway-1-1"}

Has(j, k) == IsSome(get(j, Lit(k)))
Fld(j, k) == Unwrap(get(j, Lit(k)))
\* j.get(k).unwrap().as_str().unwrap() and its like return
OkStr(j, k) == Has(j, k) /\ IsStr(Fld(j, k))
OkBool(j, k) == Has(j, k) /\ IsBool(Fld(j, k))
OkI64(j, k) == Has(j, k) /\ IsSome(as_i64(Fld(j, k)))
OkArr(j, k) == Has(j, k) /\ IsArr(Fld(j, k))
OkObj(j, k) == Has(j, k) /\ IsObj(Fld(j, k))
\* a field matched against Value::String / Value::Null, anything else unreachable!()
OkStrOrNull(j, k) == Has(j, k) /\ (IsStr(Fld(j, k)) \/ IsNull(Fld(j, k)))
StrOrNull(j, k) == IF IsStr(Fld(j, k)) THEN Some(Fld(j, k)[2]) ELSE None
Str(j, k) == Fld(j, k)[2]
\* as_bool().unwrap() of a field, read as false whatever it holds
Bool_mut_false(j, k) == FALSE
Bool(j, k) == Fld(j, k)[2]
I64(j, k) == Unwrap(as_i64(Fld(j, k)))
I32(j, k) == as_i32(I64(j, k))

\* a HashMap, as a function on its keys
EmptyMap == [k \in {} |-> <<>>]
Insert(m, k, v) == [x \in DOMAIN m \cup {k} |-> IF x = k THEN v ELSE m[x]]

\* common::build_rect
build_rect_ok(jrect) ==
    OkI64(jrect, "x") /\ OkI64(jrect, "y") /\ OkI64(jrect, "width")
        /\ OkI64(jrect, "height")
build_rect(jrect) ==
    << I32(jrect, "x"), I32(jrect, "y"), I32(jrect, "width"), I32(jrect, "height") >>

\* the match on the key without the arm of "title"
WindowPropertyOf_mut_notitle(key) ==
    IF key = Lit("class") THEN Some("Class")
    ELSE IF key = Lit("instance") THEN Some("Instance")
    ELSE IF key = Lit("window_role") THEN Some("WindowRole")
    ELSE IF key = Lit("transient_for") THEN Some("TransientFor")
    ELSE IF key = Lit("machine") THEN Some("Machine")
    ELSE None

\* the match on the key in common::build_window_properties
WindowPropertyOf(key) ==
    IF key = Lit("class") THEN Some("Class")
    ELSE IF key = Lit("instance") THEN Some("Instance")
    ELSE IF key = Lit("window_role") THEN Some("WindowRole")
    ELSE IF key = Lit("title") THEN Some("Title")
    ELSE IF key = Lit("transient_for") THEN Some("TransientFor")
    ELSE IF key = Lit("machine") THEN Some("Machine")
    ELSE None

\* the loop inserting only the values that are strings
RECURSIVE WindowPropertiesLoop_mut_skip(_, _)
WindowPropertiesLoop_mut_skip(kvs, map) ==
    IF kvs = <<>> THEN map
    ELSE LET wp == WindowPropertyOf(Head(kvs)[1])
             val == Head(kvs)[2]
         IN  WindowPropertiesLoop_mut_skip(Tail(kvs),
                IF IsSome(wp) /\ IsStr(val)
                THEN Insert(map, Unwrap(wp), val[2])
                ELSE map)

\* the loop `for (key, val) in properties` of common::build_window_properties
RECURSIVE WindowPropertiesLoop(_, _)
WindowPropertiesLoop(kvs, map) ==
    IF kvs = <<>> THEN map
    ELSE LET wp == WindowPropertyOf(Head(kvs)[1])
             val == Head(kvs)[2]
         IN  WindowPropertiesLoop(Tail(kvs),
                IF IsSome(wp)
                THEN Insert(map, Unwrap(wp), IF IsStr(val) THEN val[2] ELSE <<>>)
                ELSE map)

\* common::build_window_properties(j: Option<&Value>)
build_window_properties_ok(j) == IsSome(j) => IsObj(Unwrap(j))
build_window_properties(j) ==
    IF IsSome(j) THEN Some(WindowPropertiesLoop(Unwrap(j)[2], EmptyMap)) ELSE None

\* the match on `type` with Con for its default arm
NodeTypeOf_mut_con(s) ==
    IF s = Lit("root") THEN "Root"
    ELSE IF s = Lit("output") THEN "Output"
    ELSE IF s = Lit("floating_con") THEN "FloatingCon"
    ELSE IF s = Lit("workspace") THEN "Workspace"
    ELSE IF s = Lit("dockarea") THEN "DockArea"
    ELSE "Con"

NodeTypeOf(s) ==
    IF s = Lit("root") THEN "Root"
    ELSE IF s = Lit("output") THEN "Output"
    ELSE IF s = Lit("con") THEN "Con"
    ELSE IF s = Lit("floating_con") THEN "FloatingCon"
    ELSE IF s = Lit("workspace") THEN "Workspace"
    ELSE IF s = Lit("dockarea") THEN "DockArea"
    ELSE "Unknown"

NodeBorderOf(s) ==
    IF s = Lit("normal") THEN "Normal"
    ELSE IF s = Lit("none") THEN "None"
    ELSE IF s = Lit("pixel") THEN "Pixel"
    ELSE "Unknown"

NodeLayoutOf(s) ==
    IF s = Lit("splith") THEN "SplitH"
    ELSE IF s = Lit("splitv") THEN "SplitV"
    ELSE IF s = Lit("stacked") THEN "Stacked"
    ELSE IF s = Lit("tabbed") THEN "Tabbed"
    ELSE IF s = Lit("dockarea") THEN "DockArea"
    ELSE IF s = Lit("output") THEN "Output"
    ELSE "Unknown"

\* common::build_tree
RECURSIVE build_tree_ok(_), build_tree(_)
\* build_tree unwrapping `focus` as it does `id`
build_tree_ok_mut_focus(val) ==
    /\ Has(val, "focus")
    /\ IsArr(Fld(val, "focus"))
    /\ \A i \in DOMAIN Fld(val, "focus")[2] : IsSome(as_i64(Fld(val, "focus")[2][i]))
    /\ Has(val, "nodes") =>
        /\ IsArr(Fld(val, "nodes"))
        /\ \A i \in DOMAIN Fld(val, "nodes")[2] : build_tree_ok(Fld(val, "nodes")[2][i])
    /\ Has(val, "floating_nodes") =>
        /\ IsArr(Fld(val, "floating_nodes"))
        /\ \A i \in DOMAIN Fld(val, "floating_nodes")[2] :
                build_tree_ok(Fld(val, "floating_nodes")[2][i])
    /\ OkI64(val, "id")
    /\ OkStr(val, "type")
    /\ OkStr(val, "border")
    /\ OkI64(val, "current_border_width")
    /\ OkStr(val, "layout")
    /\ Has(val, "percent") /\ (IsNum(Fld(val, "percent")) \/ IsNull(Fld(val, "percent")))
    /\ Has(val, "rect") /\ build_rect_ok(Fld(val, "rect"))
    /\ Has(val, "window_rect") /\ build_rect_ok(Fld(val, "window_rect"))
    /\ Has(val, "deco_rect") /\ build_rect_ok(Fld(val, "deco_rect"))
    /\ Has(val, "geometry") /\ build_rect_ok(Fld(val, "geometry"))
    /\ Has(val, "window")
    /\ \/ IsNull(Fld(val, "window"))
       \/ IsNum(Fld(val, "window")) /\ IsSome(as_i64(Fld(val, "window")))
    /\ build_window_properties_ok(get(val, Lit("window_properties")))
    /\ OkBool(val, "urgent")
    /\ OkBool(val, "focused")

build_tree_ok(val) ==
    /\ Has(val, "focus") =>
        /\ IsArr(Fld(val, "focus"))
        /\ \A i \in DOMAIN Fld(val, "focus")[2] : IsSome(as_i64(Fld(val, "focus")[2][i]))
    /\ Has(val, "nodes") =>
        /\ IsArr(Fld(val, "nodes"))
        /\ \A i \in DOMAIN Fld(val, "nodes")[2] : build_tree_ok(Fld(val, "nodes")[2][i])
    /\ Has(val, "floating_nodes") =>
        /\ IsArr(Fld(val, "floating_nodes"))
        /\ \A i \in DOMAIN Fld(val, "floating_nodes")[2] :
                build_tree_ok(Fld(val, "floating_nodes")[2][i])
    /\ OkI64(val, "id")
    /\ OkStr(val, "type")
    /\ OkStr(val, "border")
    /\ OkI64(val, "current_border_width")
    /\ OkStr(val, "layout")
    /\ Has(val, "percent") /\ (IsNum(Fld(val, "percent")) \/ IsNull(Fld(val, "percent")))
    /\ Has(val, "rect") /\ build_rect_ok(Fld(val, "rect"))
    /\ Has(val, "window_rect") /\ build_rect_ok(Fld(val, "window_rect"))
    /\ Has(val, "deco_rect") /\ build_rect_ok(Fld(val, "deco_rect"))
    /\ Has(val, "geometry") /\ build_rect_ok(Fld(val, "geometry"))
    /\ Has(val, "window")
    /\ \/ IsNull(Fld(val, "window"))
       \/ IsNum(Fld(val, "window")) /\ IsSome(as_i64(Fld(val, "window")))
    /\ build_window_properties_ok(get(val, Lit("window_properties")))
    /\ OkBool(val, "urgent")
    /\ OkBool(val, "focused")

\* build_tree collecting the children of `nodes` last to first
build_tree_mut_reverse(val) ==
    [ focus |-> IF Has(val, "focus")
                THEN [i \in DOMAIN Fld(val, "focus")[2] |->
                            Unwrap(as_i64(Fld(val, "focus")[2][i]))]
                ELSE <<>>,
      nodes |-> IF Has(val, "nodes")
                THEN [i \in DOMAIN Fld(val, "nodes")[2] |->
                            build_tree(Fld(val, "nodes")[2][
                                Len(Fld(val, "nodes")[2]) + 1 - i])]
                ELSE <<>>,
      floating_nodes |->
                IF Has(val, "floating_nodes")
                THEN [i \in DOMAIN Fld(val, "floating_nodes")[2] |->
                            build_tree(Fld(val, "floating_nodes")[2][i])]
                ELSE <<>>,
      id |-> I64(val, "id"),
      name |-> IF Has(val, "name") /\ IsStr(Fld(val, "name"))
               THEN Some(Str(val, "name")) ELSE None,
      nodetype |-> NodeTypeOf(Str(val, "type")),
      border |-> NodeBorderOf(Str(val, "border")),
      current_border_width |-> I32(val, "current_border_width"),
      layout |-> NodeLayoutOf(Str(val, "layout")),
      percent |-> IF IsNum(Fld(val, "percent"))
                  THEN Some(Unwrap(as_f64(Fld(val, "percent")))) ELSE None,
      rect |-> build_rect(Fld(val, "rect")),
      window_rect |-> build_rect(Fld(val, "window_rect")),
      deco_rect |-> build_rect(Fld(val, "deco_rect")),
      geometry |-> build_rect(Fld(val, "geometry")),
      window |-> IF IsNum(Fld(val, "window")) THEN Some(I32(val, "window")) ELSE None,
      window_properties |-> build_window_properties(get(val, Lit("window_properties"))),
      urgent |-> Bool(val, "urgent"),
      focused |-> Bool(val, "focused") ]

build_tree(val) ==
    [ focus |-> IF Has(val, "focus")
                THEN [i \in DOMAIN Fld(val, "focus")[2] |->
                            Unwrap(as_i64(Fld(val, "focus")[2][i]))]
                ELSE <<>>,
      nodes |-> IF Has(val, "nodes")
                THEN [i \in DOMAIN Fld(val, "nodes")[2] |->
                            build_tree(Fld(val, "nodes")[2][i])]
                ELSE <<>>,
      floating_nodes |->
                IF Has(val, "floating_nodes")
                THEN [i \in DOMAIN Fld(val, "floating_nodes")[2] |->
                            build_tree(Fld(val, "floating_nodes")[2][i])]
                ELSE <<>>,
      id |-> I64(val, "id"),
      name |-> IF Has(val, "name") /\ IsStr(Fld(val, "name"))
               THEN Some(Str(val, "name")) ELSE None,
      nodetype |-> NodeTypeOf(Str(val, "type")),
      border |-> NodeBorderOf(Str(val, "border")),
      current_border_width |-> I32(val, "current_border_width"),
      layout |-> NodeLayoutOf(Str(val, "layout")),
      percent |-> IF IsNum(Fld(val, "percent"))
                  THEN Some(Unwrap(as_f64(Fld(val, "percent")))) ELSE None,
      rect |-> build_rect(Fld(val, "rect")),
      window_rect |-> build_rect(Fld(val, "window_rect")),
      deco_rect |-> build_rect(Fld(val, "deco_rect")),
      geometry |-> build_rect(Fld(val, "geometry")),
      window |-> IF IsNum(Fld(val, "window")) THEN Some(I32(val, "window")) ELSE None,
      window_properties |-> build_window_properties(get(val, Lit("window_properties"))),
      urgent |-> Bool(val, "urgent"),
      focused |-> Bool(val, "focused") ]

\* the match on the colour key in common::build_bar_config, built with
\* the features fs
ColorableBarPartOf(c, fs) ==
    IF c = Lit("background") THEN "Background"
    ELSE IF c = Lit("statusline") THEN "Statusline"
    ELSE IF c = Lit("separator") THEN "Separator"
    ELSE IF "i3-4-12" \in fs /\ c = Lit("focused_background") THEN "FocusedBackground"
    ELSE IF "i3-4-12" \in fs /\ c = Lit("focused_statusline") THEN "FocusedStatusline"
    ELSE IF "i3-4-12" \in fs /\ c = Lit("focused_separator") THEN "FocusedSeparator"
    ELSE IF c = Lit("focused_workspace_text") THEN "FocusedWorkspaceText"
    ELSE IF c = Lit("focused_workspace_bg") THEN "FocusedWorkspaceBg"
    ELSE IF c = Lit("focused_workspace_border") THEN "FocusedWorkspaceBorder"
    ELSE IF c = Lit("active_workspace_text") THEN "ActiveWorkspaceText"
    ELSE IF c = Lit("active_workspace_bg") THEN "ActiveWorkspaceBg"
    ELSE IF c = Lit("active_workspace_border") THEN "ActiveWorkspaceBorder"
    ELSE IF c = Lit("inactive_workspace_text") THEN "InactiveWorkspaceText"
    ELSE IF c = Lit("inactive_workspace_bg") THEN "InactiveWorkspaceBg"
    ELSE IF c = Lit("inactive_workspace_border") THEN "InactiveWorkspaceBorder"
    ELSE IF c = Lit("urgent_workspace_text") THEN "UrgentWorkspaceText"
    ELSE IF c = Lit("urgent_workspace_bg") THEN "UrgentWorkspaceBg"
    ELSE IF c = Lit("urgent_workspace_border") THEN "UrgentWorkspaceBorder"
    ELSE IF c = Lit("binding_mode_text") THEN "BindingModeText"
    ELSE IF c = Lit("binding_mode_bg") THEN "BindingModeBg"
    ELSE IF c = Lit("binding_mode_border") THEN "BindingModeBorder"
    ELSE "Unknown"

\* the loop over the colours leaving out the keys no arm names
RECURSIVE ColorsLoop_mut_drop(_, _, _)
ColorsLoop_mut_drop(kvs, map, fs) ==
    IF kvs = <<>> THEN map
    ELSE ColorsLoop_mut_drop(Tail(kvs),
            IF ColorableBarPartOf(Head(kvs)[1], fs) = "Unknown" THEN map
            ELSE Insert(map, ColorableBarPartOf(Head(kvs)[1], fs), Head(kvs)[2][2]), fs)

\* the loop keeping the first value inserted under a part
RECURSIVE ColorsLoop_mut_first(_, _, _)
ColorsLoop_mut_first(kvs, map, fs) ==
    IF kvs = <<>> THEN map
    ELSE ColorsLoop_mut_first(Tail(kvs),
            IF ColorableBarPartOf(Head(kvs)[1], fs) \in DOMAIN map THEN map
            ELSE Insert(map, ColorableBarPartOf(Head(kvs)[1], fs), Head(kvs)[2][2]), fs)

\* the loop `for c in colors.keys()` of common::build_bar_config
RECURSIVE ColorsLoop(_, _, _)
ColorsLoop(kvs, map, fs) ==
    IF kvs = <<>> THEN map
    ELSE ColorsLoop(Tail(kvs),
            Insert(map, ColorableBarPartOf(Head(kvs)[1], fs), Head(kvs)[2][2]), fs)

\* common::build_bar_config
build_bar_config_ok(j) ==
    /\ OkStr(j, "id") /\ OkStr(j, "mode") /\ OkStr(j, "position")
    /\ OkStr(j, "status_command") /\ OkStr(j, "font")
    /\ OkBool(j, "workspace_buttons") /\ OkBool(j, "binding_mode_indicator")
    /\ OkBool(j, "verbose")
    /\ OkObj(j, "colors")
    /\ \A i \in DOMAIN Fld(j, "colors")[2] : IsStr(Fld(j, "colors")[2][i][2])

build_bar_config(j, fs) ==
    [ id |-> Str(j, "id"),
      mode |-> Str(j, "mode"),
      position |-> Str(j, "position"),
      status_command |-> Str(j, "status_command"),
      font |-> Str(j, "font"),
      workspace_buttons |-> Bool(j, "workspace_buttons"),
      binding_mode_indicator |-> Bool(j, "binding_mode_indicator"),
      verbose |-> Bool(j, "verbose"),
      colors |-> ColorsLoop(Fld(j, "colors")[2], EmptyMap, fs) ]

----------------------------------------------------------------------------
(* What an operation gives its caller: Ok(value), Err(MessageError) or a    *)
(* panic that aborts the thread.                                            *)

Ok(v) == << "Ok", v >>
Err(e) == << "Err", e >>
Panic(why) == << "Panic", why >>
IsOk(r) == r[1] = "Ok"
IsErr(r) == r[1] = "Err"
IsPanic(r) == r[1] = "Panic"

\* the closure of I3Connection::run_command over one outcome object
CommandOutcome_ok(c) == OkBool(c, "success") /\ (Has(c, "error") => IsStr(Fld(c, "error")))
CommandOutcome(c) ==
    [ success |-> Bool(c, "success"),
      error |-> IF Has(c, "error") THEN Some(Str(c, "error")) ELSE None ]

\* run_command returning the outcomes last to first
run_command_value_mut_reverse(j) ==
    [ outcomes |-> [i \in DOMAIN j[2] |-> CommandOutcome(j[2][Len(j[2]) + 1 - i])] ]

\* I3Connection::run_command, from the reply value j on
run_command_ok(j) == IsArr(j) /\ \A i \in DOMAIN j[2] : CommandOutcome_ok(j[2][i])
run_command_value(j) == [ outcomes |-> [i \in DOMAIN j[2] |-> CommandOutcome(j[2][i])] ]

\* the closure of I3Connection::get_workspaces over one workspace object
Workspace_ok(w) ==
    /\ OkI64(w, "num") /\ OkStr(w, "name") /\ OkBool(w, "visible")
    /\ OkBool(w, "focused") /\ OkBool(w, "urgent")
    /\ Has(w, "rect") /\ build_rect_ok(Fld(w, "rect"))
    /\ OkStr(w, "output")
Workspace(w) ==
    [ num |-> I32(w, "num"), name |-> Str(w, "name"), visible |-> Bool(w, "visible"),
      focused |-> Bool(w, "focused"), urgent |-> Bool(w, "urgent"),
      rect |-> build_rect(Fld(w, "rect")), output |-> Str(w, "output") ]

\* I3Connection::get_workspaces, from the reply value j on
get_workspaces_ok(j) == IsArr(j) /\ \A i \in DOMAIN j[2] : Workspace_ok(j[2][i])
get_workspaces_value(j) == [ workspaces |-> [i \in DOMAIN j[2] |-> Workspace(j[2][i])] ]

\* common::build_mode (feature sway-1-1)
build_mode_ok(jmode) ==
    OkI64(jmode, "width") /\ OkI64(jmode, "height") /\ OkI64(jmode, "refresh")
build_mode(jmode) ==
    [ width |-> I32(jmode, "width"), height |-> I32(jmode, "height"),
      refresh |-> I32(jmode, "refresh") ]

\* common::build_modes (feature sway-1-1)
build_modes_ok(j) == IsArr(j) /\ \A i \in DOMAIN j[2] : build_mode_ok(j[2][i])
build_modes(j) == [i \in DOMAIN j[2] |-> build_mode(j[2][i])]

\* the closure of I3Connection::get_outputs over one output object
Output_ok(o, fs) ==
    /\ OkStr(o, "name") /\ OkBool(o, "active") /\ OkBool(o, "primary")
    /\ OkStrOrNull(o, "current_workspace")
    /\ Has(o, "rect") /\ build_rect_ok(Fld(o, "rect"))
    /\ "sway-1-1" \in fs =>
        /\ OkStr(o, "make") /\ OkStr(o, "model") /\ OkStr(o, "serial")
        /\ Has(o, "scale") => IsNum(Fld(o, "scale"))
        /\ Has(o, "subpixel_hinting") => IsStr(Fld(o, "subpixel_hinting"))
        /\ Has(o, "transform") => IsStr(Fld(o, "transform"))
        /\ Has(o, "modes") /\ build_modes_ok(Fld(o, "modes"))
        /\ Has(o, "current_mode") => build_mode_ok(Fld(o, "current_mode"))
        /\ OkBool(o, "dpms")
Output(o, fs) ==
    [ name |-> Str(o, "name"), active |-> Bool(o, "active"),
      primary |-> Bool(o, "primary"),
      current_workspace |-> StrOrNull(o, "current_workspace"),
      rect |-> build_rect(Fld(o, "rect")),
      sway |-> IF "sway-1-1" \in fs
               THEN Some([ make |-> Str(o, "make"), model |-> Str(o, "model"),
                           serial |-> Str(o, "serial"),
                           scale |-> IF Has(o, "scale")
                                     THEN Some(Unwrap(as_f64(Fld(o, "scale")))) ELSE None,
                           subpixel_hinting |-> IF Has(o, "subpixel_hinting")
                                     THEN Some(Str(o, "subpixel_hinting")) ELSE None,
                           transform |-> IF Has(o, "transform")
                                     THEN Some(Str(o, "transform")) ELSE None,
                           modes |-> build_modes(Fld(o, "modes")),
                           current_mode |-> IF Has(o, "current_mode")
                                     THEN Some(build_mode(Fld(o, "current_mode"))) ELSE None,
                           dpms |-> Bool(o, "dpms") ])
               ELSE None ]

\* I3Connection::get_outputs, from the reply value j on
get_outputs_ok(j, fs) == IsArr(j) /\ \A i \in DOMAIN j[2] : Output_ok(j[2][i], fs)
get_outputs_value(j, fs) == [ outputs |-> [i \in DOMAIN j[2] |-> Output(j[2][i], fs)] ]

\* I3Connection::get_version, from the reply value j on
get_version_ok(j) ==
    /\ OkI64(j, "major") /\ OkI64(j, "minor") /\ OkI64(j, "patch")
    /\ OkStr(j, "human_readable") /\ OkStr(j, "loaded_config_file_name")
get_version_value(j) ==
    [ major |-> I32(j, "major"), minor |-> I32(j, "minor"), patch |-> I32(j, "patch"),
      human_readable |-> Str(j, "human_readable"),
      loaded_config_file_name |-> Str(j, "loaded_config_file_name") ]

\* I3Connection::get_config, from the reply value j on
get_config_ok(j) == OkStr(j, "config")
get_config_value(j) == [ config |-> Str(j, "config") ]

\* subscribe reporting success whatever the reply says
subscribe_value_mut_true(j) == [ success |-> TRUE ]

\* I3EventListener::subscribe, from the reply value j on
subscribe_ok(j) == OkBool(j, "success")
subscribe_value(j) == [ success |-> Bool(j, "success") ]

----------------------------------------------------------------------------
(* The event decoders of src/src/event.rs: FromStr for each event info.     *)
(* X_from_str(s) is Err("JsonCouldntParse"), a panic, or Ok(info).          *)

WorkspaceChangeOf(s) ==
    IF s = Lit("focus") THEN "Focus"
    ELSE IF s = Lit("init") THEN "Init"
    ELSE IF s = Lit("empty") THEN "Empty"
    ELSE IF s = Lit("urgent") THEN "Urgent"
    ELSE IF s = Lit("rename") THEN "Rename"
    ELSE IF s = Lit("reload") THEN "Reload"
    ELSE IF s = Lit("move") THEN "Move"
    ELSE IF s = Lit("restored") THEN "Restored"
    ELSE "Unknown"

\* a field that is null or a node: None or Some(build_tree)
NullOrTree_ok(v) == IsNull(v) \/ build_tree_ok(v)
NullOrTree(v) == IF IsNull(v) THEN None ELSE Some(build_tree(v))

\* WorkspaceEventInfo::from_str unwrapping `old` as it does `current`
WorkspaceEventInfo_of_mut_old(r) ==
    LET val == r.v
    IN  IF ~r.ok THEN Err("JsonCouldntParse")
        ELSE IF ~(/\ OkStr(val, "change")
                  /\ Has(val, "current") /\ NullOrTree_ok(Fld(val, "current"))
                  /\ Has(val, "old") /\ NullOrTree_ok(Fld(val, "old")))
            THEN Panic("unwrap")
        ELSE Ok([ change |-> WorkspaceChangeOf(Str(val, "change")),
                  current |-> NullOrTree(Fld(val, "current")),
                  old |-> NullOrTree(Fld(val, "old")) ])

\* WorkspaceEventInfo::from_str
WorkspaceEventInfo_of(r) ==
    LET val == r.v
    IN  IF ~r.ok THEN Err("JsonCouldntParse")
        ELSE IF ~(/\ OkStr(val, "change")
                  /\ Has(val, "current") /\ NullOrTree_ok(Fld(val, "current"))
                  /\ Has(val, "old") => NullOrTree_ok(Fld(val, "old")))
            THEN Panic("unwrap")
        ELSE Ok([ change |-> WorkspaceChangeOf(Str(val, "change")),
                  current |-> NullOrTree(Fld(val, "current")),
                  old |-> IF Has(val, "old") THEN NullOrTree(Fld(val, "old")) ELSE None ])

\* WorkspaceEventInfo::from_str: json::from_str(s), then the fields
WorkspaceEventInfo_from_str(s) == WorkspaceEventInfo_of(from_str(s))

\* OutputEventInfo::from_str
OutputEventInfo_of(r) ==
    LET val == r.v
    IN  IF ~r.ok THEN Err("JsonCouldntParse")
        ELSE IF ~OkStr(val, "change") THEN Panic("unwrap")
        ELSE Ok([ change |-> IF Str(val, "change") = Lit("unspecified")
                             THEN "Unspecified" ELSE "Unknown" ])

\* OutputEventInfo::from_str: json::from_str(s), then the fields
OutputEventInfo_from_str(s) == OutputEventInfo_of(from_str(s))

\* ModeEventInfo::from_str
ModeEventInfo_of(r) ==
    LET val == r.v
    IN  IF ~r.ok THEN Err("JsonCouldntParse")
        ELSE IF ~OkStr(val, "change") THEN Panic("unwrap")
        ELSE Ok([ change |-> Str(val, "change") ])

\* ModeEventInfo::from_str: json::from_str(s), then the fields
ModeEventInfo_from_str(s) == ModeEventInfo_of(from_str(s))

WindowChangeOf(s, fs) ==
    IF s = Lit("new") THEN "New"
    ELSE IF s = Lit("close") THEN "Close"
    ELSE IF s = Lit("focus") THEN "Focus"
    ELSE IF s = Lit("title") THEN "Title"
    ELSE IF s = Lit("fullscreen_mode") THEN "FullscreenMode"
    ELSE IF s = Lit("move") THEN "Move"
    ELSE IF s = Lit("floating") THEN "Floating"
    ELSE IF s = Lit("urgent") THEN "Urgent"
    ELSE IF "i3-4-13" \in fs /\ s = Lit("mark") THEN "Mark"
    ELSE "Unknown"

\* WindowEventInfo::from_str
WindowEventInfo_of(r, fs) ==
    LET val == r.v
    IN  IF ~r.ok THEN Err("JsonCouldntParse")
        ELSE IF ~(/\ OkStr(val, "change")
                  /\ Has(val, "container") /\ build_tree_ok(Fld(val, "container")))
            THEN Panic("unwrap")
        ELSE Ok([ change |-> WindowChangeOf(Str(val, "change"), fs),
                  container |-> build_tree(Fld(val, "container")) ])

\* WindowEventInfo::from_str: json::from_str(s), then the fields
WindowEventInfo_from_str(s, fs) == WindowEventInfo_of(from_str(s), fs)

\* BarConfigEventInfo::from_str
BarConfigEventInfo_of(r, fs) ==
    LET val == r.v
    IN  IF ~r.ok THEN Err("JsonCouldntParse")
        ELSE IF ~build_bar_config_ok(val) THEN Panic("unwrap")
        ELSE Ok([ bar_config |-> build_bar_config(val, fs) ])

\* BarConfigEventInfo::from_str: json::from_str(s), then the fields
BarConfigEventInfo_from_str(s, fs) == BarConfigEventInfo_of(from_str(s), fs)

InputTypeOf(s) ==
    IF s = Lit("keyboard") THEN "Keyboard"
    ELSE IF s = Lit("mouse") THEN "Mouse"
    ELSE "Unknown"

\* BindingEventInfo::from_str
BindingEventInfo_of(r) ==
    LET val == r.v
        bind == Fld(val, "binding")
    IN  IF ~r.ok THEN Err("JsonCouldntParse")
        ELSE IF ~(/\ Has(val, "binding")
                  /\ OkStr(val, "change")
                  /\ OkStr(bind, "command")
                  /\ OkArr(bind, "event_state_mask")
                  /\ \A i \in DOMAIN Fld(bind, "event_state_mask")[2] :
                        IsStr(Fld(bind, "event_state_mask")[2][i])
                  /\ OkI64(bind, "input_code")
                  /\ OkStrOrNull(bind, "symbol")
                  /\ OkStr(bind, "input_type"))
            THEN Panic("unwrap")
        ELSE Ok([ change |-> IF Str(val, "change") = Lit("run") THEN "Run" ELSE "Unknown",
                  binding |->
                    [ command |-> Str(bind, "command"),
                      event_state_mask |->
                        [i \in DOMAIN Fld(bind, "event_state_mask")[2] |->
                            Fld(bind, "event_state_mask")[2][i][2]],
                      input_code |-> I32(bind, "input_code"),
                      symbol |-> StrOrNull(bind, "symbol"),
                      input_type |-> InputTypeOf(Str(bind, "input_type")) ] ])

\* BindingEventInfo::from_str: json::from_str(s), then the fields
BindingEventInfo_from_str(s) == BindingEventInfo_of(from_str(s))

\* ShutdownEventInfo::from_str (feature i3-4-14)
ShutdownEventInfo_of(r) ==
    LET val == r.v
    IN  IF ~r.ok THEN Err("JsonCouldntParse")
        ELSE IF ~OkStr(val, "change") THEN Panic("unwrap")
        ELSE Ok([ change |-> IF Str(val, "change") = Lit("restart") THEN "Restart"
                             ELSE IF Str(val, "change") = Lit("exit") THEN "Exit"
                             ELSE "Unknown" ])

\* ShutdownEventInfo::from_str: json::from_str(s), then the fields
ShutdownEventInfo_from_str(s) == ShutdownEventInfo_of(from_str(s))

\* an event::Event: the variant and its info
Event(variant, r) == IF IsOk(r) THEN Ok([variant |-> variant, info |-> r[2]]) ELSE r

\* build_event with the arms of window and mode events exchanged
build_event_mut_swap(msgtype, payload, fs) ==
    IF msgtype = U32(0) THEN Event("WorkspaceEvent", WorkspaceEventInfo_from_str(payload))
    ELSE IF msgtype = U32(1) THEN Event("OutputEvent", OutputEventInfo_from_str(payload))
    ELSE IF msgtype = U32(3) THEN Event("ModeEvent", ModeEventInfo_from_str(payload))
    ELSE IF msgtype = U32(2) THEN Event("WindowEvent", WindowEventInfo_from_str(payload, fs))
    ELSE IF msgtype = U32(4) THEN Event("BarConfigEvent", BarConfigEventInfo_from_str(payload, fs))
    ELSE IF msgtype = U32(5) THEN Event("BindingEvent", BindingEventInfo_from_str(payload))
    ELSE IF "i3-4-14" \in fs /\ msgtype = U32(6)
        THEN Event("ShutdownEvent", ShutdownEventInfo_from_str(payload))
    ELSE Panic("unreachable")

\* build_event with a soft error in place of unreachable!()
build_event_mut_softerr(msgtype, payload, fs) ==
    IF msgtype = U32(0) THEN Event("WorkspaceEvent", WorkspaceEventInfo_from_str(payload))
    ELSE IF msgtype = U32(1) THEN Event("OutputEvent", OutputEventInfo_from_str(payload))
    ELSE IF msgtype = U32(2) THEN Event("ModeEvent", ModeEventInfo_from_str(payload))
    ELSE IF msgtype = U32(3) THEN Event("WindowEvent", WindowEventInfo_from_str(payload, fs))
    ELSE IF msgtype = U32(4) THEN Event("BarConfigEvent", BarConfigEventInfo_from_str(payload, fs))
    ELSE IF msgtype = U32(5) THEN Event("BindingEvent", BindingEventInfo_from_str(payload))
    ELSE IF "i3-4-14" \in fs /\ msgtype = U32(6)
        THEN Event("ShutdownEvent", ShutdownEventInfo_from_str(payload))
    ELSE Err("JsonCouldntParse")

\* build_event in EventIterator::next, built with the features fs
build_event(msgtype, payload, fs) ==
    IF msgtype = U32(0) THEN Event("WorkspaceEvent", WorkspaceEventInfo_from_str(payload))
    ELSE IF msgtype = U32(1) THEN Event("OutputEvent", OutputEventInfo_from_str(payload))
    ELSE IF msgtype = U32(2) THEN Event("ModeEvent", ModeEventInfo_from_str(payload))
    ELSE IF msgtype = U32(3) THEN Event("WindowEvent", WindowEventInfo_from_str(payload, fs))
    ELSE IF msgtype = U32(4) THEN Event("BarConfigEvent", BarConfigEventInfo_from_str(payload, fs))
    ELSE IF msgtype = U32(5) THEN Event("BindingEvent", BindingEventInfo_from_str(payload))
    ELSE IF "i3-4-14" \in fs /\ msgtype = U32(6)
        THEN Event("ShutdownEvent", ShutdownEventInfo_from_str(payload))
    ELSE Panic("unreachable")

\* the kind as it was read
strip_event_bit_mut_keep(msgint) == msgint

\* (msgint << 1) >> 1 on a u32: bit 31 cleared
strip_event_bit(msgint) == << msgint[1] % 32768, msgint[2] >>

----------------------------------------------------------------------------
(* The peer (i3): the JSON texts it writes.  These are inputs of the client, *)
(* not code of the client.                                                  *)

\* texts the peer or the caller uses that are no literal of the source
SampleTexts ==
    "nonsense" :> << 110, 111, 110, 115, 101, 110, 115, 101 >> @@
    "eDP-1" :> << 101, 68, 80, 45, 49 >> @@
    "1" :> << 49 >> @@
    "bad syntax" :> << 98, 97, 100, 32, 115, 121, 110, 116, 97, 120 >> @@
    "default" :> << 100, 101, 102, 97, 117, 108, 116 >> @@
    "#c0c0c0" :> << 35, 99, 48, 99, 48, 99, 48 >> @@
    "#00ff00" :> << 35, 48, 48, 102, 102, 48, 48 >> @@
    "totally_new_color" :> << 116, 111, 116, 97, 108, 108, 121, 95, 110, 101, 119, 95, 99, 111, 108, 111, 114 >> @@
    "bar-0" :> << 98, 97, 114, 45, 48 >> @@
    "nop" :> << 110, 111, 112 >> @@
    "i3status" :> << 105, 51, 115, 116, 97, 116, 117, 115 >> @@
    "dock" :> << 100, 111, 99, 107 >> @@
    "bottom" :> << 98, 111, 116, 116, 111, 109 >> @@
    "fixed" :> << 102, 105, 120, 101, 100 >> @@
    "4.14" :> << 52, 46, 49, 52 >> @@
    "cfg" :> << 99, 102, 103 >> @@
    "Firefox" :> << 70, 105, 114, 101, 102, 111, 120 >> @@
    "shift" :> << 115, 104, 105, 102, 116 >> @@
    "t" :> << 116 >> @@
    "exec true" :> << 101, 120, 101, 99, 32, 116, 114, 117, 101 >> @@
    "cafe-euro" :> << 99, 97, 102, 233, 32, 8364 >> @@
    "LVDS1" :> << 76, 86, 68, 83, 49 >> @@
    "orientation" :> << 111, 114, 105, 101, 110, 116, 97, 116, 105, 111, 110 >>

Texts == SourceLiterals @@ SampleTexts
T(name) == Texts[name]

RECURSIVE NatDigits(_)
NatDigits(n) == IF n < 10 THEN << n >> ELSE NatDigits(n \div 10) \o << n % 10 >>

\* the JSON integer n
JInt(n) == IF n < 0 THEN JNum(TRUE, NatDigits(0 - n)) ELSE JNum(FALSE, NatDigits(n))

RECURSIVE EscapeText(_)
EscapeText(s) ==
    IF s = <<>> THEN <<>>
    ELSE (IF Head(s) \in {34, 92} THEN << 92, Head(s) >> ELSE << Head(s) >>)
            \o EscapeText(Tail(s))

RECURSIVE Ser(_), SerElems(_), SerMembers(_)
\* the JSON text of a value, as the peer writes it (members in the order given)
Ser(v) ==
    IF v[1] = "null" THEN << 110, 117, 108, 108 >>
    ELSE IF v[1] = "bool" THEN
        (IF v[2] THEN << 116, 114, 117, 101 >> ELSE << 102, 97, 108, 115, 101 >>)
    ELSE IF v[1] = "num" /\ v[2] = "int" THEN
        (IF v[3] THEN << 45 >> ELSE <<>>) \o [i \in DOMAIN v[4] |-> 48 + v[4][i]]
    ELSE IF v[1] = "num" THEN
        (IF v[3] THEN << 45 >> ELSE <<>>) \o [i \in DOMAIN v[4] |-> 48 + v[4][i]]
            \o << 46 >> \o [i \in DOMAIN v[5] |-> 48 + v[5][i]]
    ELSE IF v[1] = "str" THEN << 34 >> \o EscapeText(v[2]) \o << 34 >>
    ELSE IF v[1] = "arr" THEN << 91 >> \o SerElems(v[2]) \o << 93 >>
    ELSE << 123 >> \o SerMembers(v[2]) \o << 125 >>
SerElems(xs) ==
    IF xs = <<>> THEN <<>>
    ELSE Ser(Head(xs)) \o (IF Len(xs) > 1 THEN << 44 >> \o SerElems(Tail(xs)) ELSE <<>>)
SerMembers(kvs) ==
    IF kvs = <<>> THEN <<>>
    ELSE << 34 >> \o EscapeText(Head(kvs)[1]) \o << 34, 58 >> \o Ser(Head(kvs)[2])
            \o (IF Len(kvs) > 1 THEN << 44 >> \o SerMembers(Tail(kvs)) ELSE <<>>)

\* an object written with the member names given as names of Texts
O(pairs) == JObj([i \in DOMAIN pairs |-> << T(pairs[i][1]), pairs[i][2] >>])
S(name) == JStr(T(name))

SampleRect == O(<< <<"x", JInt(0)>>, <<"y", JInt(0)>>,
                   <<"width", JInt(1920)>>, <<"height", JInt(1080)>> >>)

\* a container with the members of the given list ahead of the required ones
SampleNode(id, focused, extra) ==
    O(extra \o
      << <<"id", JInt(id)>>, <<"name", S("1")>>, <<"type", S("workspace")>>,
         <<"border", S("normal")>>, <<"current_border_width", JInt(2)>>,
         <<"layout", S("splith")>>, <<"orientation", S("none")>>,
         <<"percent", JFloat(FALSE, <<0>>, <<5>>)>>,
         <<"rect", SampleRect>>, <<"window_rect", SampleRect>>,
         <<"deco_rect", SampleRect>>, <<"geometry", SampleRect>>,
         <<"window", JNull>>, <<"urgent", JBool(FALSE)>>,
         <<"focused", JBool(focused)>> >>)

SampleTree ==
    SampleNode(1, FALSE,
        << <<"focus", JArr(<< JInt(2) >>)>>,
           <<"nodes", JArr(<< SampleNode(2, TRUE, <<>>) >>)>> >>)

SampleBarConfig ==
    O(<< <<"id", S("bar-0")>>, <<"mode", S("dock")>>, <<"position", S("bottom")>>,
         <<"status_command", S("i3status")>>, <<"font", S("fixed")>>,
         <<"workspace_buttons", JBool(TRUE)>>,
         <<"binding_mode_indicator", JBool(TRUE)>>, <<"verbose", JBool(FALSE)>>,
         <<"colors", O(<< <<"background", S("#c0c0c0")>>,
                          <<"totally_new_color", S("#00ff00")>> >>)>> >>)

----------------------------------------------------------------------------
(* The request methods: what each sends, and what it makes of the reply.    *)

Request(op, ty, payload) == [op |-> op, ty |-> U32(ty), payload |-> payload]
NoRequest == Request("none", 0, <<>>)

\* the wire name of a Subscription in I3EventListener::subscribe
SubscriptionName(sub) ==
    IF sub = "Workspace" THEN << 34 >> \o Lit("workspace") \o << 34 >>
    ELSE IF sub = "Output" THEN << 34 >> \o Lit("output") \o << 34 >>
    ELSE IF sub = "Mode" THEN << 34 >> \o Lit("mode") \o << 34 >>
    ELSE IF sub = "Window" THEN << 34 >> \o Lit("window") \o << 34 >>
    ELSE IF sub = "BarConfig" THEN << 34 >> \o Lit("barconfig_update") \o << 34 >>
    ELSE IF sub = "Binding" THEN << 34 >> \o Lit("binding") \o << 34 >>
    ELSE << 34 >> \o Lit("shutdown") \o << 34 >>

\* .collect::<Vec<_>>().join(", ")
RECURSIVE JoinCommaSpace(_)
JoinCommaSpace(xs) ==
    IF xs = <<>> THEN <<>>
    ELSE IF Len(xs) = 1 THEN xs[1]
    ELSE xs[1] \o << 44, 32 >> \o JoinCommaSpace(Tail(xs))

\* the text `json` of I3EventListener::subscribe
subscribe_json(events) ==
    << 91, 32 >> \o JoinCommaSpace([i \in DOMAIN events |-> SubscriptionName(events[i])])
        \o << 32, 93 >>

\* the request kind 1 sent in place of 4 by get_tree
get_tree_request_mut_kind == Request("get_tree", 1, <<>>)

\* the (message_type, payload) each method hands to send_receive_i3_message
run_command_request(string) == Request("run_command", 0, string)
get_workspaces_request == Request("get_workspaces", 1, <<>>)
subscribe_request(events) == Request("subscribe", 2, subscribe_json(events))
get_outputs_request == Request("get_outputs", 3, <<>>)
get_tree_request == Request("get_tree", 4, <<>>)
get_marks_request == Request("get_marks", 5, <<>>)
get_bar_ids_request == Request("get_bar_ids", 6, <<>>)
\* get_bar_config sending the id as a JSON string
get_bar_config_request_mut_quoted(id) ==
    Request("get_bar_config", 6, << 34 >> \o id \o << 34 >>)
get_bar_config_request(id) == Request("get_bar_config", 6, id)
get_version_request == Request("get_version", 7, <<>>)
get_binding_modes_request == Request("get_binding_modes", 8, <<>>)
get_config_request == Request("get_config", 9, <<>>)

\* the methods that ask send_receive_i3_message for a Vec<String>
VecStringOps == {"get_marks", "get_bar_ids", "get_binding_modes"}

\* send_receive_i3_message after a write that succeeded, with the kind
\* assertion left out; r is what receive_i3_message returned
send_receive_i3_message_mut_noassert(op, message_type, r) ==
    IF r.st = "err" THEN Err("Receive")
    ELSE IF op \in VecStringOps THEN
        LET v == from_str_vec_string(r.payload) IN
        IF v.ok THEN Ok(v.v) ELSE Err("JsonCouldntParse")
    ELSE LET v == from_str(r.payload) IN
         IF v.ok THEN Ok(v.v) ELSE Err("JsonCouldntParse")

\* send_receive_i3_message with every failure after the write reported as
\* a JSON failure
send_receive_i3_message_mut_errkind(op, message_type, r) ==
    IF r.st = "err" THEN Err("JsonCouldntParse")
    ELSE IF message_type # r.ty THEN Panic("assert_eq")
    ELSE IF op \in VecStringOps THEN
        LET v == from_str_vec_string(r.payload) IN
        IF v.ok THEN Ok(v.v) ELSE Err("JsonCouldntParse")
    ELSE LET v == from_str(r.payload) IN
         IF v.ok THEN Ok(v.v) ELSE Err("JsonCouldntParse")

\* send_receive_i3_message returning an error on a reply of another kind
send_receive_i3_message_mut_kinderr(op, message_type, r) ==
    IF r.st = "err" THEN Err("Receive")
    ELSE IF message_type # r.ty THEN Err("Receive")
    ELSE IF op \in VecStringOps THEN
        LET v == from_str_vec_string(r.payload) IN
        IF v.ok THEN Ok(v.v) ELSE Err("JsonCouldntParse")
    ELSE LET v == from_str(r.payload) IN
         IF v.ok THEN Ok(v.v) ELSE Err("JsonCouldntParse")

\* send_receive_i3_message unwrapping the parse of the payload
send_receive_i3_message_mut_unwrap(op, message_type, r) ==
    IF r.st = "err" THEN Err("Receive")
    ELSE IF message_type # r.ty THEN Panic("assert_eq")
    ELSE IF op \in VecStringOps THEN
        LET v == from_str_vec_string(r.payload) IN
        IF v.ok THEN Ok(v.v) ELSE Panic("unwrap")
    ELSE LET v == from_str(r.payload) IN
         IF v.ok THEN Ok(v.v) ELSE Panic("unwrap")

\* send_receive_i3_message after a write that succeeded; r is what
\* receive_i3_message returned.  Result<T, MessageError> or the panic of
\* assert_eq!, with T the type the method `op` asks for.
send_receive_i3_message(op, message_type, r) ==
    IF r.st = "err" THEN Err("Receive")
    ELSE IF message_type # r.ty THEN Panic("assert_eq")
    ELSE IF op \in VecStringOps THEN
        LET v == from_str_vec_string(r.payload) IN
        IF v.ok THEN Ok(v.v) ELSE Err("JsonCouldntParse")
    ELSE LET v == from_str(r.payload) IN
         IF v.ok THEN Ok(v.v) ELSE Err("JsonCouldntParse")

OrPanic(ok, v) == IF ok THEN Ok(v) ELSE Panic("unwrap")

\* the rest of each method after `send_receive_i3_message(..)?`, on the
\* value j it returned
method_result(op, j, fs) ==
    IF op = "run_command" THEN OrPanic(run_command_ok(j), run_command_value(j))
    ELSE IF op = "get_workspaces"
        THEN OrPanic(get_workspaces_ok(j), get_workspaces_value(j))
    ELSE IF op = "subscribe" THEN OrPanic(subscribe_ok(j), subscribe_value(j))
    ELSE IF op = "get_outputs"
        THEN OrPanic(get_outputs_ok(j, fs), get_outputs_value(j, fs))
    ELSE IF op = "get_tree" THEN OrPanic(build_tree_ok(j), build_tree(j))
    ELSE IF op = "get_marks" THEN Ok([marks |-> j])
    ELSE IF op = "get_bar_ids" THEN Ok([ids |-> j])
    ELSE IF op = "get_bar_config"
        THEN OrPanic(build_bar_config_ok(j), build_bar_config(j, fs))
    ELSE IF op = "get_version" THEN OrPanic(get_version_ok(j), get_version_value(j))
    ELSE IF op = "get_binding_modes" THEN Ok([modes |-> j])
    ELSE OrPanic(get_config_ok(j), get_config_value(j))

\* what the method `req.op` returns once receive_i3_message returned r
AndThen(op, sr, fs) == IF IsOk(sr) THEN method_result(op, sr[2], fs) ELSE sr
method_return(req, r, fs) ==
    AndThen(req.op, send_receive_i3_message(req.op, req.ty, r), fs)

\* EventIterator::next reporting a failed read as a JSON failure
EventIterator_next_mut_errkind(r, fs) ==
    IF r.st = "err" THEN Some(Err("JsonCouldntParse"))
    ELSE Some(build_event(strip_event_bit(r.ty), r.payload, fs))

\* EventIterator::next returning None when the read fails
EventIterator_next_mut_none(r, fs) ==
    IF r.st = "err" THEN None
    ELSE Some(build_event(strip_event_bit(r.ty), r.payload, fs))

\* EventIterator::next once receive_i3_message returned r: Option<Item>.
\* A panic of build_event is the item's place taken by the panic.
EventIterator_next(r, fs) ==
    IF r.st = "err" THEN Some(Err("Receive"))
    ELSE Some(build_event(strip_event_bit(r.ty), r.payload, fs))

----------------------------------------------------------------------------
(* The peer: what it may put on the wire.                                   *)

\* the frame the peer writes for an envelope (i3's own encoder)
PeerFrame(ty, payload) ==
    LET b == str_bytes(payload) IN
    << 105, 51, 45, 105, 112, 99 >>
        \o << Len(b) % 256, (Len(b) \div 256) % 256, (Len(b) \div Half) % 256, 0 >>
        \o << ty[2] % 256, ty[2] \div 256, ty[1] % 256, ty[1] \div 256 >>
        \o b

SampleWorkspace ==
    O(<< <<"num", JInt(1)>>, <<"name", S("1")>>, <<"visible", JBool(TRUE)>>,
         <<"focused", JBool(TRUE)>>, <<"urgent", JBool(FALSE)>>,
         <<"rect", SampleRect>>, <<"output", S("eDP-1")>> >>)

SampleMode == O(<< <<"width", JInt(1920)>>, <<"height", JInt(1080)>>,
                   <<"refresh", JInt(60)>> >>)

SampleOutput ==
    O(<< <<"name", S("LVDS1")>>, <<"make", S("nonsense")>>, <<"model", S("nonsense")>>,
         <<"serial", S("1")>>, <<"modes", JArr(<< SampleMode >>)>>,
         <<"dpms", JBool(TRUE)>>, <<"active", JBool(TRUE)>>,
         <<"primary", JBool(FALSE)>>, <<"current_workspace", JNull>>,
         <<"rect", SampleRect>> >>)

SampleVersion ==
    O(<< <<"major", JInt(4)>>, <<"minor", JInt(14)>>, <<"patch", JInt(0)>>,
         <<"human_readable", S("4.14")>>, <<"loaded_config_file_name", S("cfg")>> >>)

SampleBinding ==
    O(<< <<"change", S("run")>>,
         <<"binding", O(<< <<"command", S("nop")>>,
                           <<"event_state_mask", JArr(<< S("shift") >>)>>,
                           <<"input_code", JInt(0)>>, <<"symbol", S("t")>>,
                           <<"input_type", S("keyboard")>> >>)>> >>)

\* the reply a conforming peer gives to each request
GoodReply(op) ==
    IF op = "run_command" THEN
        Ser(JArr(<< O(<< <<"success", JBool(TRUE)>> >>),
                    O(<< <<"success", JBool(FALSE)>>, <<"error", S("bad syntax")>> >>) >>))
    ELSE IF op = "get_workspaces" THEN Ser(JArr(<< SampleWorkspace >>))
    ELSE IF op = "subscribe" THEN Ser(O(<< <<"success", JBool(TRUE)>> >>))
    ELSE IF op = "get_outputs" THEN Ser(JArr(<< SampleOutput >>))
    ELSE IF op = "get_tree" THEN Ser(SampleTree)
    ELSE IF op = "get_marks" THEN Ser(JArr(<< S("1") >>))
    ELSE IF op = "get_bar_ids" THEN Ser(JArr(<< S("bar-0") >>))
    ELSE IF op = "get_bar_config" THEN Ser(SampleBarConfig)
    ELSE IF op = "get_version" THEN Ser(SampleVersion)
    ELSE IF op = "get_binding_modes" THEN Ser(JArr(<< S("default") >>))
    ELSE Ser(O(<< <<"config", S("cfg")>> >>))

\* the payload a conforming peer sends with an event of category c
GoodEvent(c) ==
    IF c = 0 THEN Ser(O(<< <<"change", S("focus")>>,
                           <<"current", SampleNode(2, TRUE, <<>>)>>,
                           <<"old", JNull>> >>))
    ELSE IF c = 1 THEN Ser(O(<< <<"change", S("unspecified")>> >>))
    ELSE IF c = 2 THEN Ser(O(<< <<"change", S("default")>> >>))
    ELSE IF c = 3 THEN
        Ser(O(<< <<"change", S("new")>>,
                 <<"container",
                   SampleNode(2, TRUE,
                     << <<"window_properties",
                          O(<< <<"class", S("Firefox")>>,
                               <<"transient_for", JNull>> >>)>> >>)>> >>))
    ELSE IF c = 4 THEN Ser(SampleBarConfig)
    ELSE IF c = 5 THEN Ser(SampleBinding)
    ELSE Ser(O(<< <<"change", S("restart")>> >>))

\* a text that is no JSON
BadJson == << 123 >>

Envelope(ty, payload, fault) ==
    [framed |-> TRUE, fault |-> fault, ty |-> ty, payload |-> payload,
     bytes |-> PeerFrame(ty, payload)]
Stray(bytes) ==
    [framed |-> FALSE, fault |-> TRUE, ty |-> U32(0), payload |-> <<>>, bytes |-> bytes]

\* the event kind of category c: bit 31 set
EventKind(c) == << 32768, c >>

\* a kind other than ty
OtherKind(ty) == U32((ty[2] + 1) % 10)

\* what the peer may answer to the request req
ReplyChoices(req) ==
    { Envelope(req.ty, GoodReply(req.op), FALSE),
      Envelope(req.ty, BadJson, TRUE),
      Envelope(req.ty, Ser(JNull), TRUE),
      Envelope(OtherKind(req.ty), GoodReply(req.op), TRUE) }

\* the events the peer may send to a listener
EventChoices ==
    { Envelope(EventKind(c), GoodEvent(c), FALSE) : c \in 0 .. 6 }
        \cup { Envelope(EventKind(7), GoodEvent(1), TRUE),
               Envelope(U32(3), GoodEvent(3), TRUE),
               Envelope(<< 32769, 2 >>, GoodEvent(2), TRUE),
               Envelope(EventKind(1), BadJson, TRUE),
               Envelope(EventKind(2), Ser(JNull), TRUE) }

\* bytes that are no envelope: a wrong magic tag ahead of a whole header and
\* payload, and an envelope cut short in its payload
StrayChoices ==
    { Stray(<< 105, 51, 45, 105, 112, 120 >> \o << 2, 0, 0, 0, 1, 0, 0, 0, 91, 93 >>),
      Stray(<< 105, 51, 45, 105, 112, 99 >> \o << 5, 0, 0, 0, 1, 0, 0, 0, 91, 93 >>) }

Faults == Len(SelectSeq(wire, LAMBDA e : e.fault))

----------------------------------------------------------------------------
(* The client on one connection and its peer.                               *)

\* the builds looked at: each feature is on in one and off in another
FeatureSets ==
    { {}, {"i3-4-13"}, {"i3-4-12", "i3-4-14"}, AllFeatures }

\* arguments the caller passes
CommandStrings == { <<>>, T("exec true"), T("cafe-euro") }
BarIdStrings == { <<>>, T("bar-0") }
SubscriptionLists(fs) ==
    { <<>>, << "Workspace" >>, << "Binding", "Window" >> }
        \cup (IF "i3-4-14" \in fs
              THEN { << "Workspace", "Output", "Mode", "Window", "BarConfig",
                        "Binding", "Shutdown" >> }
              ELSE { << "Workspace", "Output", "Mode", "Window", "BarConfig",
                        "Binding" >> })

Init ==
    /\ features \in FeatureSets
    /\ role \in {"conn", "listener"}
    /\ pc = "idle"
    /\ cur = NoRequest
    /\ tx = <<>>
    /\ rx = <<>>
    /\ chan = "open"
    /\ wire = <<>>
    /\ log = <<>>
    /\ stack = <<>>

Started == Len(log) + (IF pc = "awaitReply" THEN 1 ELSE 0)
Eof == chan = "closed"

Entry(req, res, got, used) ==
    [op |-> req.op, ty |-> req.ty, payload |-> req.payload, res |-> res,
     got |-> got, used |-> used]
Got(r) == IF r.st = "ok" THEN Some(<< r.ty, r.payload >>) ELSE None

\* The first half of send_receive_i3_message: send_i3_message and its
\* write_all.  The write fails once the peer has closed the stream, and the
\* method returns MessageError::Send without reading.
Call(req) ==
    /\ pc = "idle"
    /\ Started < MaxOps
    /\ IF Eof
       THEN /\ log' = Append(log, Entry(req, Err("Send"), None, 0))
            /\ UNCHANGED << pc, cur, tx >>
       ELSE /\ tx' = Append(tx, send_i3_message(req.ty, req.payload))
            /\ cur' = req
            /\ pc' = "awaitReply"
            /\ log' = log
    /\ UNCHANGED << stack, features, role, rx, chan, wire >>

run_command ==
    /\ role = "conn"
    /\ \E string \in CommandStrings : Call(run_command_request(string))
get_workspaces == role = "conn" /\ Call(get_workspaces_request)
get_outputs == role = "conn" /\ Call(get_outputs_request)
get_tree == role = "conn" /\ Call(get_tree_request)
get_marks == role = "conn" /\ Call(get_marks_request)
get_bar_ids == role = "conn" /\ Call(get_bar_ids_request)
get_bar_config ==
    /\ role = "conn"
    /\ \E id \in BarIdStrings : Call(get_bar_config_request(id))
get_version == role = "conn" /\ Call(get_version_request)
get_binding_modes ==
    role = "conn" /\ "i3-4-13" \in features /\ Call(get_binding_modes_request)
get_config == role = "conn" /\ "i3-4-14" \in features /\ Call(get_config_request)
subscribe ==
    /\ role = "listener"
    /\ \E events \in SubscriptionLists(features) : Call(subscribe_request(events))

\* The second half of send_receive_i3_message and the rest of the method:
\* receive_i3_message returns, the reply is checked and decoded, the method
\* returns (or the thread panics).
Return ==
    /\ role \in {"conn", "listener"}
    /\ pc = "awaitReply"
    /\ \E r \in { receive_i3_message(rx, Eof) } :
        /\ r.st # "block"
        /\ rx' = r.rest
        /\ log' = Append(log, Entry(cur, method_return(cur, r, features), Got(r),
                                    Len(rx) - Len(r.rest)))
    /\ pc' = IF IsPanic(log'[Len(log')].res) THEN "aborted" ELSE "idle"
    /\ cur' = NoRequest
    /\ UNCHANGED << stack, features, role, tx, chan, wire >>

\* One pull on the iterator of I3EventListener::listen: EventIterator::next.
next ==
    /\ role = "listener"
    /\ pc = "idle"
    /\ Started < MaxOps
    /\ \E r \in { receive_i3_message(rx, Eof) } :
        /\ r.st # "block"
        /\ rx' = r.rest
        /\ log' = Append(log, Entry(Request("listen", 0, <<>>),
                                    EventIterator_next(r, features), Got(r),
                                    Len(rx) - Len(r.rest)))
    /\ pc' = IF IsSome(log'[Len(log')].res) /\ IsPanic(log'[Len(log')].res[2])
             THEN "aborted" ELSE "idle"
    /\ UNCHANGED << stack, features, role, cur, tx, chan, wire >>

PeerWrite(e) ==
    /\ chan = "open"
    /\ Len(wire) < MaxWire
    /\ e.fault => Faults < MaxFaults
    /\ rx' = rx \o e.bytes
    /\ wire' = Append(wire, e)
    /\ UNCHANGED << stack, features, role, pc, cur, tx, chan, log >>

\* the peer answers the request in flight
PeerReply == pc = "awaitReply" /\ \E e \in ReplyChoices(cur) : PeerWrite(e)
\* the peer sends an event to a listener
PeerEvent == role \in {"listener", "event_printer"} /\ pc # "aborted" /\ \E e \in EventChoices : PeerWrite(e)
\* the peer writes bytes that are no envelope
PeerStray == pc = "awaitReply" /\ \E e \in StrayChoices : PeerWrite(e)
\* the peer closes the stream
PeerClose ==
    /\ chan = "open"
    /\ pc # "aborted"
    /\ chan' = "closed"
    /\ UNCHANGED << stack, features, role, pc, cur, tx, rx, wire, log >>

Next ==
    \/ run_command \/ get_workspaces \/ get_outputs \/ get_tree \/ get_marks
    \/ get_bar_ids \/ get_bar_config \/ get_version \/ get_binding_modes
    \/ get_config \/ subscribe \/ Return \/ next
    \/ PeerReply \/ PeerEvent \/ PeerStray \/ PeerClose

Spec == Init /\ [][Next]_vars

----------------------------------------------------------------------------
(* The codec over an in-memory duplex channel: what send_i3_message writes  *)
(* is what receive_i3_message reads.                                        *)

\* characters of 1, 2, 3 and 4 bytes: a, e-acute, the euro sign, U+1F600
CodecChars == { 97, 233, 8364, 128512 }
RECURSIVE TextsUpTo(_)
TextsUpTo(n) ==
    IF n = 0 THEN { <<>> }
    ELSE LET shorter == TextsUpTo(n - 1) IN
         shorter \cup { Append(t, c) : t \in shorter, c \in CodecChars }
CodecPayloads == TextsUpTo(MaxLen)
CodecKinds == { U32(k) : k \in 0 .. 9 } \cup { EventKind(3), << 65535, 65535 >> }

CodecInit ==
    /\ features = {}
    /\ role = "loopback"
    /\ pc = "idle"
    /\ cur \in { [op |-> "none", ty |-> ty, payload |-> payload] :
                    ty \in CodecKinds, payload \in CodecPayloads }
    /\ tx = <<>>
    /\ rx = <<>>
    /\ chan = "open"
    /\ wire = <<>>
    /\ log = <<>>
    /\ stack = <<>>

\* send_i3_message(kind, payload) on the channel: the drawn pair, or the
\* drawn pair with another kind and one more character
CodecSend ==
    /\ Len(tx) < MaxFrames
    /\ \E other \in BOOLEAN :
        LET ty == IF other THEN OtherKind(cur.ty) ELSE cur.ty
            payload == IF other THEN cur.payload \o << 97 >> ELSE cur.payload
            bytes == send_i3_message(ty, payload)
        IN  /\ tx' = Append(tx, bytes)
            /\ rx' = rx \o bytes
            /\ wire' = Append(wire, [framed |-> TRUE, fault |-> FALSE, ty |-> ty,
                                     payload |-> payload, bytes |-> bytes])
    /\ UNCHANGED << stack, features, role, pc, cur, chan, log >>

\* receive_i3_message() on the channel
CodecReceive ==
    /\ \E r \in { receive_i3_message(rx, FALSE) } :
        /\ r.st # "block"
        /\ rx' = r.rest
        /\ log' = Append(log, Entry(Request("receive", 0, <<>>),
                                    IF r.st = "ok" THEN Ok(<< r.ty, r.payload >>)
                                    ELSE Err("io"),
                                    Got(r), Len(rx) - Len(r.rest)))
    /\ UNCHANGED << stack, features, role, pc, cur, tx, chan, wire >>

CodecNext == CodecSend \/ CodecReceive

SpecCodec == CodecInit /\ [][CodecNext]_vars

----------------------------------------------------------------------------
(* The claims.                                                              *)

Last(s) == s[Len(s)]
ResIs(res, tag, why) == res[1] = tag /\ res[2] = why
IsRequestOp(op) == op \notin {"listen", "receive", "none"}
MultiByte(text) == \E i \in DOMAIN text : text[i] >= 128

\* the frames sent and not yet received
Unread == Concat(SubSeq(tx, Len(log) + 1, Len(tx)))

\* C1: what send_i3_message wrote, receive_i3_message reads back as the
\* same (kind, payload) pair, for every kind in 0..=9 and every text, the
\* empty one too; the read takes the bytes of that frame, all of them and
\* no byte of the next frame.
C1_RoundTrip ==
    role = "loopback" =>
        /\ Len(log) <= Len(tx)
        /\ \A k \in DOMAIN log :
            /\ log[k].got = Some(<< wire[k].ty, wire[k].payload >>)
            /\ log[k].used = Len(tx[k])
        /\ rx = Unread

\* a frame of a kind in 0..=9 with characters of several bytes was read
\* back and another frame is unread
C1_Witness ==
    /\ role = "loopback"
    /\ Len(log) = 1
    /\ Len(tx) = 2
    /\ wire[1].ty[1] = 0 /\ wire[1].ty[2] \in 0 .. 9
    /\ MultiByte(wire[1].payload)
    /\ Len(wire[1].payload) = MaxLen

\* the two 16-bit halves of the little-endian u32 at bytes i .. i+3
LeU32(f, i) == << f[i + 2] + 256 * f[i + 3], f[i] + 256 * f[i + 1] >>

\* C2: every frame send_i3_message writes is 14+n bytes long: "i3-ipc", n
\* as a little-endian u32, the kind as a little-endian u32, the n bytes of
\* the payload, n being the length of the payload in bytes.
C2_FrameLayout ==
    role = "loopback" =>
        \A i \in DOMAIN tx :
            LET f == tx[i]
                n == Len(str_bytes(wire[i].payload))
            IN  /\ Len(f) = 14 + n
                /\ SubSeq(f, 1, 6) = << 105, 51, 45, 105, 112, 99 >>
                /\ LeU32(f, 7) = << 0, n >>
                /\ LeU32(f, 11) = wire[i].ty
                /\ SubSeq(f, 15, Len(f)) = str_bytes(wire[i].payload)

\* a frame was written whose payload has more bytes than characters
C2_Witness ==
    /\ role = "loopback"
    /\ \E i \in DOMAIN tx :
        /\ MultiByte(wire[i].payload)
        /\ Len(tx[i]) > 14 + Len(wire[i].payload)

\* the operations that read the stream, in order
ReadLog == SelectSeq(log, LAMBDA e : ~ResIs(e.res, "Err", "Send"))
Consumed == Len(SelectSeq(log, LAMBDA e : IsSome(e.got)))
OnlyEnvelopes == \A i \in DOMAIN wire : wire[i].framed
Awaiting == IF pc = "awaitReply" THEN 1 ELSE 0
RequestsWritten ==
    Cardinality({ k \in DOMAIN log :
                    IsRequestOp(log[k].op) /\ ~ResIs(log[k].res, "Err", "Send") })
        + Awaiting

\* C3: on a stream that carries envelopes only, every request writes one
\* frame and then reads one envelope: the frames written are one per request
\* that got to write, the k-th operation that reads is handed the k-th
\* envelope of the wire, whole, and when all requests completed without a
\* transport error as many envelopes were consumed as frames were sent.
C3_SequentialDiscipline ==
    role \in {"conn", "listener"} /\ OnlyEnvelopes =>
        /\ Len(tx) = RequestsWritten
        /\ \A k \in DOMAIN ReadLog :
            IF k <= Len(wire)
            THEN /\ ReadLog[k].got = Some(<< wire[k].ty, wire[k].payload >>)
                 /\ ReadLog[k].used = Len(wire[k].bytes)
            ELSE ReadLog[k].got = None /\ ReadLog[k].used = 0
        /\ rx = Concat([ i \in 1 .. (Len(wire) - Consumed) |->
                            wire[Consumed + i].bytes ])
        /\ (role = "conn" /\ pc = "idle"
                /\ (\A k \in DOMAIN log : ~ResIs(log[k].res, "Err", "Receive"))
            => Consumed = Len(tx))

\* two requests of different methods completed, each with a decoded value
C3_Witness ==
    /\ role = "conn"
    /\ Len(log) = 2
    /\ log[1].op # log[2].op
    /\ IsOk(log[1].res) /\ IsOk(log[2].res)
    /\ Len(tx) = 2 /\ Len(wire) = 2 /\ rx = <<>>

\* C4: a request that is handed an envelope of another kind than the kind
\* it sent panics on the assertion, and the thread is gone; it returns
\* neither a decoded value nor an error.
C4_KindMismatchAborts ==
    \A k \in DOMAIN log :
        IsRequestOp(log[k].op) /\ IsSome(log[k].got)
            /\ Unwrap(log[k].got)[1] # log[k].ty
        => /\ ResIs(log[k].res, "Panic", "assert_eq")
           /\ k = Len(log)
           /\ pc = "aborted"

\* a request was handed the well-formed reply of its method under another kind
C4_Witness ==
    /\ log # <<>>
    /\ IsRequestOp(Last(log).op)
    /\ IsSome(Last(log).got)
    /\ Unwrap(Last(log).got)[1] # Last(log).ty
    /\ Unwrap(Last(log).got)[2] = GoodReply(Last(log).op)

\* the kind the protocol gives each request
KindTag(op) ==
    IF op = "run_command" THEN 0
    ELSE IF op = "get_workspaces" THEN 1
    ELSE IF op = "subscribe" THEN 2
    ELSE IF op = "get_outputs" THEN 3
    ELSE IF op = "get_tree" THEN 4
    ELSE IF op = "get_marks" THEN 5
    ELSE IF op \in {"get_bar_ids", "get_bar_config"} THEN 6
    ELSE IF op = "get_version" THEN 7
    ELSE IF op = "get_binding_modes" THEN 8
    ELSE 9
NoArgumentOps ==
    {"get_workspaces", "get_outputs", "get_tree", "get_marks", "get_bar_ids",
     "get_version", "get_binding_modes", "get_config"}
SubscriptionNames ==
    { Lit("workspace"), Lit("output"), Lit("mode"), Lit("window"),
      Lit("barconfig_update"), Lit("binding"), Lit("shutdown") }
IsJsonArrayOfNames(text) ==
    LET v == from_str_vec_string(text) IN
    v.ok /\ \A i \in DOMAIN v.v : v.v[i] \in SubscriptionNames

\* the requests that got to write, in order
Writers ==
    SelectSeq(log, LAMBDA e : IsRequestOp(e.op) /\ ~ResIs(e.res, "Err", "Send"))
        \o (IF pc = "awaitReply" THEN << cur >> ELSE <<>>)

\* C5: the frame each request writes carries the kind of its method (0
\* run_command, 1 get_workspaces, 2 subscribe, 3 get_outputs, 4 get_tree,
\* 5 get_marks, 6 get_bar_ids and get_bar_config, 7 get_version,
\* 8 get_binding_modes, 9 get_config) and its payload: the command text, the
\* bar id, a JSON array of event names for subscribe, the empty string for
\* a method without argument.
C5_RequestKinds ==
    role \in {"conn", "listener"} =>
        /\ Len(tx) = Len(Writers)
        /\ \A i \in DOMAIN tx :
            LET w == Writers[i] IN
            /\ tx[i] = PeerFrame(U32(KindTag(w.op)), w.payload)
            /\ w.op \in NoArgumentOps => w.payload = <<>>
            /\ w.op = "run_command" => w.payload \in CommandStrings
            /\ w.op = "get_bar_config" => w.payload \in BarIdStrings
            /\ w.op = "subscribe" => IsJsonArrayOfNames(w.payload)

\* get_tree and a get_bar_config with a bar id have written their frames
C5_Witness ==
    /\ Len(tx) = 2
    /\ Writers[1].op = "get_tree"
    /\ Writers[2].op = "get_bar_config"
    /\ Writers[2].payload # <<>>

\* the steps, told by what they change
RequestStep == pc = "idle" /\ (tx' # tx \/ (log' # log /\ IsRequestOp(Last(log').op)))
ReturnStep == pc = "awaitReply" /\ pc' # "awaitReply"
PullStep == log' # log /\ Last(log').op = "listen"
HeadNotMagic == Len(rx) >= 6 /\ Take(rx, 6) # << 105, 51, 45, 105, 112, 99 >>
ReceiveFailed(e) ==
    IF e.op = "listen" THEN e.res = Some(Err("Receive"))
    ELSE ResIs(e.res, "Err", "Receive")

\* C6: a read that finds six bytes other than "i3-ipc" at the head of the
\* stream fails with MessageError::Receive; it took those six bytes and left
\* every byte after them, and it handed over no kind and no payload.
C6_MagicMismatch ==
    [][ (ReturnStep \/ PullStep) /\ HeadNotMagic =>
            /\ rx' = Drop(rx, 6)
            /\ Last(log').used = 6
            /\ Last(log').got = None
            /\ ReceiveFailed(Last(log')) ]_vars

\* a read has failed on a wrong magic tag ahead of ten more bytes, which are
\* still in the stream
C6_Witness ==
    /\ log # <<>>
    /\ Last(log).used = 6
    /\ ReceiveFailed(Last(log))
    /\ rx = << 2, 0, 0, 0, 1, 0, 0, 0, 91, 93 >>

\* C7: a request whose write fails returns MessageError::Send and reads
\* nothing; a request whose write succeeded returns nothing before its
\* read; a request whose read fails, on a stream closed in the middle of an
\* envelope too, returns MessageError::Receive and not JsonCouldntParse.
C7_ErrorPhases ==
    [][ /\ RequestStep /\ Eof =>
            /\ tx' = tx /\ rx' = rx /\ pc' = "idle"
            /\ Len(log') = Len(log) + 1
            /\ ResIs(Last(log').res, "Err", "Send")
            /\ Last(log').used = 0 /\ Last(log').got = None
        /\ RequestStep /\ ~Eof =>
            Len(tx') = Len(tx) + 1 /\ log' = log /\ rx' = rx /\ pc' = "awaitReply"
        /\ ReturnStep /\ Last(log').got = None =>
            ResIs(Last(log').res, "Err", "Receive") ]_vars

\* a request met the end of the stream inside an envelope's payload, and
\* the next request could not write
C7_Witness ==
    /\ Len(log) = 2
    /\ ResIs(log[1].res, "Err", "Receive") /\ log[1].used > 14
    /\ ResIs(log[2].res, "Err", "Send")
    /\ Len(tx) = 1

\* the variant of event::Event of each category
VariantOf(c) ==
    IF c = 0 THEN "WorkspaceEvent"
    ELSE IF c = 1 THEN "OutputEvent"
    ELSE IF c = 2 THEN "ModeEvent"
    ELSE IF c = 3 THEN "WindowEvent"
    ELSE IF c = 4 THEN "BarConfigEvent"
    ELSE IF c = 5 THEN "BindingEvent"
    ELSE "ShutdownEvent"

\* the pull e yields its envelope as an event of category c: never the
\* panic of an unknown category, an event of no other variant, and the
\* event itself when the payload is the one i3 sends
YieldsCategory(e, c) ==
    /\ e.res[1] = "Some"
    /\ ~ResIs(e.res[2], "Panic", "unreachable")
    /\ IsOk(e.res[2]) => e.res[2][2].variant = VariantOf(c)
    /\ Unwrap(e.got)[2] = GoodEvent(c) => IsOk(e.res[2])

\* the pulls that were handed an envelope
Pulled == { k \in DOMAIN log : log[k].op = "listen" /\ IsSome(log[k].got) }
KindOf(e) == Unwrap(e.got)[1]
IsCategory(ty) == ty[1] = 32768 /\ ty[2] \in 0 .. 6

\* C8 as the specification has it: an envelope of kind bit 31 | c, c in
\* 0..6, is yielded as the event of category c, in every build.
C8_Original ==
    \A k \in Pulled :
        IsCategory(KindOf(log[k])) => YieldsCategory(log[k], KindOf(log[k])[2])

\* C8: an envelope of kind bit 31 | c is yielded by a pull as the event of
\* category c for c in 0..5 (0 workspace, 1 output, 2 mode, 3 window -- kind
\* 0x80000003 --, 4 bar-config update, 5 binding), and for c = 6 (shutdown)
\* in a build with the feature i3-4-14; in a build without it the pull
\* panics on kind 0x80000006.
C8_EventCategories ==
    \A k \in Pulled :
        IsCategory(KindOf(log[k])) =>
            IF KindOf(log[k])[2] <= 5 \/ "i3-4-14" \in features
            THEN YieldsCategory(log[k], KindOf(log[k])[2])
            ELSE log[k].res = Some(Panic("unreachable"))

\* kind 0x80000003 was yielded as a window event, then kind 0x80000006 as
\* a shutdown event
C8_Witness ==
    /\ Len(log) = 2
    /\ Pulled = {1, 2}
    /\ KindOf(log[1]) = << 32768, 3 >>
    /\ IsOk(log[1].res[2]) /\ log[1].res[2][2].variant = "WindowEvent"
    /\ KindOf(log[2]) = << 32768, 6 >>
    /\ IsOk(log[2].res[2]) /\ log[2].res[2][2].variant = "ShutdownEvent"

\* C9: a pull handed an envelope whose kind, bit 31 cleared, is none of
\* 0..6 panics: it yields neither an Err item nor an event, and the thread
\* is gone.
C9_UnknownCategoryPanics ==
    \A k \in Pulled :
        LET ty == strip_event_bit(KindOf(log[k])) IN
        ~(ty[1] = 0 /\ ty[2] \in 0 .. 6) =>
            /\ log[k].res = Some(Panic("unreachable"))
            /\ k = Len(log)
            /\ pc = "aborted"

\* a pull was handed kind 0x80000007 with a payload i3 sends
C9_Witness ==
    /\ Pulled # {}
    /\ KindOf(Last(log)) = << 32768, 7 >>
    /\ Unwrap(Last(log).got)[2] = GoodEvent(1)

\* C10: a pull of the iterator of listen() returns an item and never the
\* end of the sequence, after the stream was closed too: then the item is
\* Err(Receive), and a pull does not wait.  A pull takes at most one
\* envelope, and on a stream of envelopes the k-th read is handed the k-th
\* envelope: wire order, none twice.
C10_ListenNeverEnds ==
    /\ \A k \in DOMAIN log :
        log[k].op = "listen" =>
            /\ log[k].res[1] = "Some"
            /\ IsSome(log[k].got) \/ log[k].res = Some(Err("Receive"))
    /\ role = "listener" /\ Eof => receive_i3_message(rx, Eof).st # "block"
    /\ OnlyEnvelopes =>
        \A k \in DOMAIN ReadLog :
            ReadLog[k].op = "listen" /\ IsSome(ReadLog[k].got) =>
                /\ k <= Len(wire)
                /\ Unwrap(ReadLog[k].got) = << wire[k].ty, wire[k].payload >>
                /\ ReadLog[k].used = Len(wire[k].bytes)

\* a pull yielded an event; the peer closed the stream; the next pull
\* yielded an error
C10_Witness ==
    /\ Len(log) = 2
    /\ log[1].op = "listen" /\ IsOk(log[1].res[2])
    /\ log[2].op = "listen" /\ log[2].res = Some(Err("Receive"))
    /\ chan = "closed"

\* the kind ty names a category the build with the features fs decodes
KnownCategory(ty, fs) ==
    /\ strip_event_bit(ty)[1] = 0
    /\ strip_event_bit(ty)[2] \in (IF "i3-4-14" \in fs THEN 0 .. 6 ELSE 0 .. 5)

\* C11: a pull whose read fails yields Err(Receive); a pull handed an
\* envelope of a category it knows whose payload is no JSON yields
\* Err(JsonCouldntParse) and has taken the whole envelope, header and
\* payload, so that the stream begins with the next envelope; a pull
\* leaves the listener on the stream it had: nothing is written, nothing
\* reopened, and the bytes it did not take stay where they were.
C11_PullErrors ==
    [][ PullStep =>
            LET e == Last(log') IN
            /\ chan' = chan /\ tx' = tx /\ wire' = wire /\ role' = role
            /\ rx' = Drop(rx, e.used)
            /\ e.got = None => e.res = Some(Err("Receive"))
            /\ IsSome(e.got) /\ KnownCategory(Unwrap(e.got)[1], features)
                    /\ ~from_str(Unwrap(e.got)[2]).ok
                => /\ e.res = Some(Err("JsonCouldntParse"))
                   /\ e.used = 14 + Len(str_bytes(Unwrap(e.got)[2]))
                   /\ pc' = "idle" ]_vars

\* a pull yielded Err(JsonCouldntParse) for a payload that is no JSON, and
\* the pull after it yielded the event of the next envelope
C11_Witness ==
    /\ Len(log) = 2
    /\ log[1].op = "listen" /\ log[1].res = Some(Err("JsonCouldntParse"))
    /\ IsSome(log[1].got) /\ Unwrap(log[1].got)[2] = BadJson
    /\ log[2].op = "listen" /\ IsOk(log[2].res[2])
    /\ Unwrap(log[2].got) = << wire[2].ty, wire[2].payload >>

----------------------------------------------------------------------------
(* examples/event_printer.rs: main subscribes, then prints every event of   *)
(* listen(); the listener of the library beside it, which any caller may    *)
(* use in any order.                                                        *)

\* the array `subs` of main
PrinterSubscriptions ==
    << "Workspace", "Output", "Mode", "Window", "BarConfig", "Binding" >>

\* .ok().expect(..) with the panic left out
expect_mut_ignore(r) == r

\* .ok().expect(..): the value, or the panic of expect on an Err
expect(r) == IF IsErr(r) THEN Panic("expect") ELSE r

\* listener.subscribe(&subs): the write
main_subscribe ==
    /\ role = "event_printer"
    /\ pc = "idle"
    /\ log = <<>>
    /\ LET req == subscribe_request(PrinterSubscriptions) IN
       IF Eof
       THEN /\ log' = << Entry(req, Err("Send"), None, 0) >>
            /\ pc' = IF IsPanic(expect(Err("Send"))) THEN "aborted" ELSE "idle"
            /\ UNCHANGED << cur, tx >>
       ELSE /\ tx' = Append(tx, send_i3_message(req.ty, req.payload))
            /\ cur' = req
            /\ pc' = "awaitReply"
            /\ log' = log
    /\ UNCHANGED << stack, features, role, rx, chan, wire >>

\* listener.subscribe(&subs).ok().expect("failed to subscribe"): the return
main_subscribed ==
    /\ role = "event_printer"
    /\ pc = "awaitReply"
    /\ \E r \in { receive_i3_message(rx, Eof) } :
        /\ r.st # "block"
        /\ rx' = r.rest
        /\ log' = Append(log, Entry(cur, method_return(cur, r, features), Got(r),
                                    Len(rx) - Len(r.rest)))
    /\ pc' = IF IsPanic(expect(log'[Len(log')].res)) THEN "aborted" ELSE "idle"
    /\ cur' = NoRequest
    /\ UNCHANGED << stack, features, role, tx, chan, wire >>

\* one turn of `for event in listener.listen()` with its
\* event.ok().expect("failed to get event")
main_loop ==
    /\ role = "event_printer"
    /\ pc = "idle"
    /\ log # <<>>
    /\ Started < MaxOps
    /\ \E r \in { receive_i3_message(rx, Eof) } :
        /\ r.st # "block"
        /\ rx' = r.rest
        /\ log' = Append(log, Entry(Request("listen", 0, <<>>),
                                    EventIterator_next(r, features), Got(r),
                                    Len(rx) - Len(r.rest)))
    /\ pc' = IF IsSome(log'[Len(log')].res) /\ IsPanic(expect(log'[Len(log')].res[2]))
             THEN "aborted" ELSE "idle"
    /\ UNCHANGED << stack, features, role, cur, tx, chan, wire >>

ListenInit ==
    /\ features \in FeatureSets
    /\ role \in {"listener", "event_printer"}
    /\ pc = "idle"
    /\ cur = NoRequest
    /\ tx = <<>>
    /\ rx = <<>>
    /\ chan = "open"
    /\ wire = <<>>
    /\ log = <<>>
    /\ stack = <<>>

ListenNext ==
    \/ subscribe \/ Return \/ next
    \/ main_subscribe \/ main_subscribed \/ main_loop
    \/ PeerReply \/ PeerEvent \/ PeerStray \/ PeerClose

SpecListen == ListenInit /\ [][ListenNext]_vars

\* the pulls made with no subscribe call completed before them
PullsUnsubscribed ==
    { k \in DOMAIN log :
        /\ log[k].op = "listen"
        /\ \A i \in 1 .. (k - 1) : log[i].op # "subscribe" }

\* C12 as the specification has it: no pull reads the channel unless a
\* subscribe call on that listener has completed first.
C12_Original == PullsUnsubscribed = {}

\* C12: in examples/event_printer.rs the subscribe call has returned Ok
\* before the first pull; I3EventListener itself does not hold its callers
\* to that order: a pull made with no subscribe before it reads the channel
\* like any other and is handed the envelope that is there.
C12_SubscribeBeforeListen ==
    /\ role = "event_printer" =>
        /\ PullsUnsubscribed = {}
        /\ (\E k \in DOMAIN log : log[k].op = "listen") =>
                log[1].op = "subscribe" /\ IsOk(log[1].res)
    /\ role = "listener" /\ OnlyEnvelopes =>
        \A k \in PullsUnsubscribed :
            IF k <= Len(wire)
            THEN /\ log[k].got = Some(<< wire[k].ty, wire[k].payload >>)
                 /\ log[k].used = Len(wire[k].bytes)
            ELSE log[k].got = None

\* main has subscribed and its loop has been handed an event
C12_Witness ==
    /\ role = "event_printer"
    /\ Len(log) = 2
    /\ log[1].op = "subscribe" /\ IsOk(log[1].res)
    /\ log[2].op = "listen" /\ IsOk(log[2].res[2])


----------------------------------------------------------------------------
(* The decoders against a peer that answers with well-framed payloads of    *)
(* the right kind: the methods of I3Connection and I3EventListener turn the *)
(* JSON of a reply or of an event into the values of reply.rs and event.rs. *)

\* an object with the member `name` appended (a repeated key keeps the last)
With(o, name, v) == JObj(Append(o[2], << T(name), v >>))
\* an object less its members `name`
Without(o, name) == JObj(SelectSeq(o[2], LAMBDA kv : kv[1] # T(name)))

\* replies to subscribe
SubscribeReplies ==
    { Ser(O(<< <<"success", JBool(b)>> >>)) : b \in BOOLEAN }

\* the outcomes of commands: reply::CommandOutcome values
Outcomes ==
    { [success |-> TRUE, error |-> None],
      [success |-> FALSE, error |-> Some(T("bad syntax"))],
      [success |-> FALSE, error |-> None] }
OutcomeLists == UNION { [1 .. n -> Outcomes] : n \in 0 .. MaxOutcomes }
\* the object i3 sends for an outcome
OutcomeJson(o) ==
    IF IsSome(o.error)
    THEN JObj(<< << T("success"), JBool(o.success) >>, << T("error"), JStr(Unwrap(o.error)) >> >>)
    ELSE JObj(<< << T("success"), JBool(o.success) >> >>)
CommandReply(os) == Ser(JArr([i \in DOMAIN os |-> OutcomeJson(os[i])]))
CommandReplies == { CommandReply(os) : os \in OutcomeLists }

\* workspaces that lack a field get_workspaces reads, or hold it with another
\* type
WorkspaceFields == { "num", "name", "visible", "focused", "urgent", "rect", "output" }
BrokenWorkspaces ==
    { Without(SampleWorkspace, f) : f \in WorkspaceFields }
        \cup { With(SampleWorkspace, "name", JInt(1)),
               With(SampleWorkspace, "visible", JNull),
               With(SampleWorkspace, "rect", Without(SampleRect, "x")),
               With(SampleWorkspace, "rect", With(SampleRect, "width", S("1"))) }
BrokenWorkspaceReplies == { Ser(JArr(<< w >>)) : w \in BrokenWorkspaces }

\* events that lack the `change` their decoder reads, or hold it as a number
BrokenEvents ==
    { << 0, Ser(O(<< <<"current", JNull>>, <<"old", JNull>> >>)) >>,
      << 1, Ser(O(<< >>)) >>,
      << 2, Ser(O(<< <<"change", JInt(1)>> >>)) >> }

\* a tree whose root has the text "nonsense" in the field f
UnknownEnumTree(f) == Ser(With(SampleTree, f, S("nonsense")))
UnknownEnumTrees == { UnknownEnumTree(f) : f \in {"type", "border", "layout"} }

\* the event of category c with the text "nonsense" for its change
UnknownChangeEvent(c) ==
    IF c = 0 THEN Ser(O(<< <<"change", S("nonsense")>>,
                           <<"current", SampleNode(2, TRUE, <<>>)>>,
                           <<"old", JNull>> >>))
    ELSE IF c = 3 THEN Ser(O(<< <<"change", S("nonsense")>>,
                                <<"container", SampleNode(2, TRUE, <<>>)>> >>))
    ELSE IF c = 5 THEN Ser(With(SampleBinding, "change", S("nonsense")))
    ELSE Ser(O(<< <<"change", S("nonsense")>> >>))
UnknownChangeCategories == {0, 1, 3, 5, 6}
UnknownChangeEvents == { << c, UnknownChangeEvent(c) >> : c \in UnknownChangeCategories }

\* the `colors` of a bar: << key, hex >> pairs
ColorSamples ==
    { << << "background", "#c0c0c0" >>, << "totally_new_color", "#00ff00" >> >>,
      << << "totally_new_color", "#00ff00" >> >>,
      << << "focused_background", "#00ff00" >>, << "statusline", "#c0c0c0" >> >>,
      << << "totally_new_color", "#00ff00" >>, << "nonsense", "#c0c0c0" >> >>,
      << << "nonsense", "#00ff00" >>, << "totally_new_color", "#c0c0c0" >>,
         << "background", "#c0c0c0" >> >>,
      << << "background", "#c0c0c0" >> >> }
BarConfigWith(cs) ==
    With(SampleBarConfig, "colors", O([i \in DOMAIN cs |-> << cs[i][1], S(cs[i][2]) >>]))
BarConfigReplies == { Ser(BarConfigWith(cs)) : cs \in ColorSamples }

\* the `window_properties` of a window: << key, value >> pairs
PropertySamples ==
    { << << "class", S("Firefox") >>, << "transient_for", JNull >> >>,
      << << "class", S("Firefox") >>, << "instance", S("nop") >>,
         << "window_role", S("dock") >>, << "title", S("cafe-euro") >>,
         << "transient_for", S("1") >>, << "machine", S("eDP-1") >>,
         << "nonsense", S("t") >> >>,
      << << "nonsense", S("t") >>, << "totally_new_color", JInt(1) >> >>,
      << << "title", S("t") >> >>,
      << << "transient_for", JInt(7) >>, << "class", JBool(TRUE) >>,
         << "title", JArr(<< S("t") >>) >>, << "machine", S("eDP-1") >> >>,
      << >> }
TreeWithProperties(ps) ==
    With(SampleTree, "window_properties", O(ps))
PropertyTrees == { Ser(TreeWithProperties(ps)) : ps \in PropertySamples }

\* trees and outputs with an optional field null, and with it left out
NullPercentTree == Ser(With(SampleTree, "percent", JNull))
NoPercentTree == Ser(Without(SampleTree, "percent"))
NoWindowTree == Ser(Without(SampleTree, "window"))
OptionalTrees == { NullPercentTree, NoPercentTree, NoWindowTree }
NoCurrentWorkspaceOutput == Ser(JArr(<< Without(SampleOutput, "current_workspace") >>))
NamedCurrentWorkspaceOutput == Ser(JArr(<< With(SampleOutput, "current_workspace", S("1")) >>))
\* workspace events with `old` null, and without `old`
NullOldEvent ==
    Ser(O(<< <<"change", S("init")>>, <<"current", SampleNode(2, TRUE, <<>>)>>,
             <<"old", JNull>> >>))
NoOldEvent ==
    Ser(O(<< <<"change", S("init")>>, <<"current", SampleNode(2, TRUE, <<>>)>> >>))

\* a tree whose root has `focus`, `nodes`, `name` and `window_properties`,
\* one whose root has `floating_nodes`, and the trees that lack one member of
\* the root
PropertiedTree == With(SampleTree, "window_properties", O(<< <<"class", S("Firefox")>> >>))
FloatingTree ==
    SampleNode(1, FALSE, << <<"floating_nodes", JArr(<< SampleNode(2, TRUE, <<>>) >>)>> >>)
ArrayFields == { "focus", "nodes" }
OptionFields == { "name", "window_properties" }
RequiredFields ==
    { "id", "type", "border", "current_border_width", "layout", "percent", "rect",
      "window_rect", "deco_rect", "geometry", "window", "urgent", "focused" }
TreeWithout(f) == Ser(Without(PropertiedTree, f))
LackingTrees ==
    { Ser(PropertiedTree), Ser(FloatingTree) }
        \cup { TreeWithout(f) : f \in ArrayFields \cup OptionFields \cup RequiredFields }

\* The shape of a tree: the id, the flags, the focus order and the children
\* of each node.
Leaf(id, focused, urgent) ==
    [ id |-> id, focused |-> focused, urgent |-> urgent, focus |-> <<>>,
      nodes |-> <<>>, floating_nodes |-> <<>> ]
Inner(id, focus, nodes, floating_nodes) ==
    [ id |-> id, focused |-> FALSE, urgent |-> FALSE, focus |-> focus,
      nodes |-> nodes, floating_nodes |-> floating_nodes ]
ChainShape == Inner(1, << 2 >>, << Inner(2, << 3 >>, << Leaf(3, TRUE, FALSE) >>, <<>>) >>, <<>>)
WideShape ==
    Inner(10, << 12, 11, 13 >>, << Leaf(11, FALSE, TRUE), Leaf(12, TRUE, FALSE) >>,
          << Leaf(13, FALSE, FALSE) >>)
FloatShape ==
    Inner(7, << 9, 8 >>, << Leaf(8, FALSE, FALSE) >>,
          << Inner(9, << 4 >>, <<>>, << Leaf(4, TRUE, TRUE) >>) >>)
\* trees i3 does not send: two focused nodes; a focus order that ends at a
\* node that is not the focused one
TwoFocusedShape ==
    Inner(20, << 21, 22 >>, << Leaf(21, TRUE, FALSE), Leaf(22, TRUE, FALSE) >>, <<>>)
StrayFocusShape ==
    Inner(30, << 32, 31 >>, << Leaf(31, TRUE, FALSE), Leaf(32, FALSE, FALSE) >>, <<>>)
TreeShapes ==
    { Leaf(5, TRUE, FALSE), ChainShape, WideShape, FloatShape, TwoFocusedShape,
      StrayFocusShape }

\* the JSON i3 sends for a tree of the given shape: the children first, an
\* empty list of children or of focus left out
RECURSIVE ShapeJson(_)
ShapeJson(t) ==
    O((IF t.nodes = <<>> THEN <<>>
       ELSE << << "nodes", JArr([i \in DOMAIN t.nodes |-> ShapeJson(t.nodes[i])]) >> >>)
      \o (IF t.floating_nodes = <<>> THEN <<>>
          ELSE << << "floating_nodes",
                     JArr([i \in DOMAIN t.floating_nodes |->
                               ShapeJson(t.floating_nodes[i])]) >> >>)
      \o (IF t.focus = <<>> THEN <<>>
          ELSE << << "focus", JArr([i \in DOMAIN t.focus |-> JInt(t.focus[i])]) >> >>)
      \o << <<"rect", SampleRect>>, <<"window_rect", SampleRect>>,
            <<"deco_rect", SampleRect>>, <<"geometry", SampleRect>>,
            <<"id", JInt(t.id)>>, <<"type", S("workspace")>>,
            <<"border", S("normal")>>, <<"current_border_width", JInt(2)>>,
            <<"layout", S("splith")>>, <<"percent", JNull>>, <<"window", JNull>>,
            <<"urgent", JBool(t.urgent)>>, <<"focused", JBool(t.focused)>> >>)
ShapeTrees == { Ser(ShapeJson(t)) : t \in TreeShapes }

\* JSON integers, each with the i32 that has its low 32 bits: 7, -1,
\* 2^31 - 1, 2^31, 2^32 - 1, 2^32 + 5 and -2^31 - 1
IntSamples ==
    { [json |-> JNum(FALSE, << 7 >>), i32 |-> 7],
      [json |-> JNum(TRUE, << 1 >>), i32 |-> 0 - 1],
      [json |-> JNum(FALSE, << 2, 1, 4, 7, 4, 8, 3, 6, 4, 7 >>), i32 |-> 2147483647],
      [json |-> JNum(FALSE, << 2, 1, 4, 7, 4, 8, 3, 6, 4, 8 >>), i32 |-> 0 - 2147483647 - 1],
      [json |-> JNum(FALSE, << 4, 2, 9, 4, 9, 6, 7, 2, 9, 5 >>), i32 |-> 0 - 1],
      [json |-> JNum(FALSE, << 4, 2, 9, 4, 9, 6, 7, 3, 0, 1 >>), i32 |-> 5],
      [json |-> JNum(TRUE, << 2, 1, 4, 7, 4, 8, 3, 6, 4, 9 >>), i32 |-> 2147483647] }
\* a rectangle, a tree, a workspace list and a version that hold the integer
IntRect(n) ==
    O(<< <<"x", n>>, <<"y", JInt(0)>>, <<"width", JInt(1920)>>, <<"height", n>> >>)
IntTree(n) ==
    Ser(With(With(With(Without(Without(Without(SampleTree, "window"),
                    "current_border_width"), "rect"),
            "rect", IntRect(n)), "current_border_width", n), "window", n))
IntWorkspaces(n) ==
    Ser(JArr(<< With(With(Without(Without(SampleWorkspace, "num"), "rect"),
                     "rect", IntRect(n)), "num", n) >>))
IntVersion(n) ==
    Ser(With(With(Without(Without(SampleVersion, "major"), "patch"),
             "major", n), "patch", n))

\* the payloads the peer may answer the request op with
DecodeReplies(op) ==
    IF op = "subscribe" THEN SubscribeReplies
    ELSE IF op = "run_command" THEN CommandReplies
    ELSE IF op = "get_workspaces"
        THEN { GoodReply(op) } \cup BrokenWorkspaceReplies
                \cup { IntWorkspaces(s.json) : s \in IntSamples }
    ELSE IF op = "get_version"
        THEN { GoodReply(op) } \cup { IntVersion(s.json) : s \in IntSamples }
    ELSE IF op = "get_tree"
        THEN { GoodReply(op) } \cup UnknownEnumTrees \cup PropertyTrees \cup OptionalTrees
                \cup LackingTrees \cup ShapeTrees
                \cup { IntTree(s.json) : s \in IntSamples }
    ELSE IF op = "get_outputs"
        THEN { GoodReply(op), NoCurrentWorkspaceOutput, NamedCurrentWorkspaceOutput }
    ELSE IF op = "get_bar_config" THEN BarConfigReplies \cup { GoodReply("get_bar_ids") }
    ELSE { GoodReply(op) }

\* the events the peer may send: << category, payload >>
DecodeEvents ==
    { << c, GoodEvent(c) >> : c \in 0 .. 6 } \cup BrokenEvents \cup UnknownChangeEvents
        \cup { << 0, NullOldEvent >>, << 0, NoOldEvent >> }

\* the peer answers the request in flight, once
PeerSampleReply ==
    /\ pc = "awaitReply"
    /\ wire = <<>>
    /\ \E payload \in DecodeReplies(cur.op) : PeerWrite(Envelope(cur.ty, payload, FALSE))

\* the peer sends one event to a listener that has no request in flight
PeerSampleEvent ==
    /\ role = "listener"
    /\ pc = "idle"
    /\ wire = <<>>
    /\ \E e \in DecodeEvents : PeerWrite(Envelope(EventKind(e[1]), e[2], FALSE))

\* the peer sends a listener the payload of an event under a kind without
\* the event bit
PeerSampleUnmarked ==
    /\ role = "listener"
    /\ pc = "idle"
    /\ wire = <<>>
    /\ \E c \in 0 .. 6 : PeerWrite(Envelope(U32(c), GoodEvent(c), FALSE))

DecodeNext ==
    \/ run_command \/ get_workspaces \/ get_outputs \/ get_tree \/ get_marks
    \/ get_bar_ids \/ get_bar_config \/ get_version \/ get_binding_modes
    \/ get_config \/ subscribe \/ Return \/ next
    \/ PeerSampleReply \/ PeerSampleEvent \/ PeerSampleUnmarked

SpecDecode == Init /\ [][DecodeNext]_vars

\* the log entry of an operation op that was handed the peer's payload `text`
Decoded(e, op, text) == e.op = op /\ e.got = Some(<< e.ty, text >>)

\* C13: subscribe(events) writes one frame of kind 2 whose payload is the
\* JSON array of the wire names of events, in the order given, and, on a
\* reply {"success": b}, returns Ok(Subscribe { success: b }).
WireName ==
    [ Workspace |-> Lit("workspace"), Output |-> Lit("output"), Mode |-> Lit("mode"),
      Window |-> Lit("window"), BarConfig |-> Lit("barconfig_update"),
      Binding |-> Lit("binding"), Shutdown |-> Lit("shutdown") ]
NamesOf(events) == [i \in DOMAIN events |-> WireName[events[i]]]
C13_Subscribe ==
    [][ /\ (RequestStep /\ role = "listener" /\ tx' # tx) =>
            \E events \in SubscriptionLists(features) :
                /\ cur'.op = "subscribe"
                /\ tx' = Append(tx, PeerFrame(U32(2), cur'.payload))
                /\ from_str_vec_string(cur'.payload) = [ok |-> TRUE, v |-> NamesOf(events)]
        /\ \A b \in BOOLEAN :
            (ReturnStep /\ cur.op = "subscribe"
                /\ Decoded(Last(log'), "subscribe", Ser(O(<< <<"success", JBool(b)>> >>))))
              => Last(log').res = Ok([success |-> b]) ]_vars
C13_Witness ==
    /\ Len(log) = 1
    /\ log[1].payload = << 91, 32 >> \o << 34 >> \o Lit("binding") \o << 34, 44, 32, 34 >>
                            \o Lit("window") \o << 34, 32, 93 >>
    /\ log[1].res = Ok([success |-> FALSE])

\* C14: run_command turns a reply array of n outcome objects into n
\* CommandOutcome values in the order of the array, each with the object's
\* success flag and error = Some(the error string) when the object has one,
\* None when it has none; the empty array gives no outcomes.
C14_CommandOutcomes ==
    [][ \A os \in OutcomeLists :
          (ReturnStep /\ Decoded(Last(log'), "run_command", CommandReply(os)))
            => /\ Last(log').res = Ok([outcomes |-> os])
               /\ Len(Last(log').res[2].outcomes) = Len(os) ]_vars
C14_Witness ==
    /\ Len(log) = 1
    /\ log[1].op = "run_command"
    /\ log[1].got = Some(<< U32(0), CommandReply(<< [success |-> TRUE, error |-> None],
                        [success |-> FALSE, error |-> Some(T("bad syntax"))] >>) >>)
    /\ IsOk(log[1].res)
    /\ Len(log[1].res[2].outcomes) = 2


\* the log entry of a pull that was handed the event << category, payload >>
Pulled_event(e, ev) == e.op = "listen" /\ e.got = Some(<< EventKind(ev[1]), ev[2] >>)

\* C15: a reply or an event whose JSON parses but lacks a required field, or
\* holds it with the wrong type, makes the operation return a typed failure
\* (an Err, no value and no abort), and the connection stays usable.
C15_SchemaErrorsTyped ==
    \A k \in DOMAIN log :
        /\ (\E text \in BrokenWorkspaceReplies : Decoded(log[k], "get_workspaces", text))
              => (IsErr(log[k].res) /\ pc # "aborted")
        /\ (\E ev \in BrokenEvents : Pulled_event(log[k], ev))
              => (IsSome(log[k].res) /\ IsErr(log[k].res[2]) /\ pc # "aborted")

\* the payload a log entry was handed is no JSON text
GotBadJson(e) == IsSome(e.got) /\ e.got[2][1] = e.ty /\ ~from_str(e.got[2][2]).ok

\* C16: a request whose reply has the kind asked for and a payload that is
\* no JSON returns MessageError::JsonCouldntParse; the read took the whole
\* envelope, 14 bytes and the payload, the stream stays usable, and the
\* request made next is handed the envelope that follows, its own reply.
C16_BadJsonReply ==
    [][ /\ (ReturnStep /\ GotBadJson(Last(log')))
            => /\ Last(log').res = Err("JsonCouldntParse")
               /\ Last(log').used = 14 + Len(str_bytes(Last(log').got[2][2]))
               /\ rx' = Drop(rx, Last(log').used)
               /\ pc' = "idle"
        /\ (ReturnStep /\ Len(log) = 1 /\ GotBadJson(log[1]) /\ OnlyEnvelopes
                /\ Len(wire) = 2)
            => /\ Last(log').got = Some(<< wire[2].ty, wire[2].payload >>)
               /\ rx' = <<>>
               /\ (wire[2].ty = cur.ty /\ wire[2].payload = GoodReply(cur.op)
                     => IsOk(Last(log').res)) ]_vars
C16_Witness ==
    /\ Len(log) = 2
    /\ GotBadJson(log[1])
    /\ log[1].res = Err("JsonCouldntParse")
    /\ log[2].op # log[1].op
    /\ IsOk(log[2].res)
    /\ log[2].got = Some(<< log[2].ty, GoodReply(log[2].op) >>)

\* the enums of the root node a get_tree call returned
NodeEnums(res) == << res[2].nodetype, res[2].border, res[2].layout >>

\* C17: a string no arm of the match names decodes to the enum's Unknown and
\* the decode succeeds: the `type`, `border` and `layout` of a node, and the
\* `change` of a workspace, output, window, binding and (in a build with the
\* feature i3-4-14, the only one that has the enum) shutdown event.
C17_UnknownEnums ==
    \A k \in DOMAIN log :
        /\ Decoded(log[k], "get_tree", UnknownEnumTree("type"))
              => IsOk(log[k].res) /\ NodeEnums(log[k].res) = << "Unknown", "Normal", "SplitH" >>
        /\ Decoded(log[k], "get_tree", UnknownEnumTree("border"))
              => IsOk(log[k].res) /\ NodeEnums(log[k].res) = << "Workspace", "Unknown", "SplitH" >>
        /\ Decoded(log[k], "get_tree", UnknownEnumTree("layout"))
              => IsOk(log[k].res) /\ NodeEnums(log[k].res) = << "Workspace", "Normal", "Unknown" >>
        /\ \A c \in UnknownChangeCategories :
              (Pulled_event(log[k], << c, UnknownChangeEvent(c) >>)
                    /\ (c = 6 => "i3-4-14" \in features))
                => /\ IsSome(log[k].res) /\ IsOk(log[k].res[2])
                   /\ log[k].res[2][2].variant = VariantOf(c)
                   /\ log[k].res[2][2].info.change = "Unknown"
C17_Witness ==
    /\ Len(log) = 1
    /\ Decoded(log[1], "get_tree", UnknownEnumTree("type"))
    /\ IsOk(log[1].res)
    /\ log[1].res[2].nodetype = "Unknown"

\* the ColorableBarPart of the keys the sample bars use, in a build with the
\* features fs; Unknown for the keys the build does not name
SamplePart(key, fs) ==
    IF key = "background" THEN "Background"
    ELSE IF key = "statusline" THEN "Statusline"
    ELSE IF key = "focused_background" /\ "i3-4-12" \in fs THEN "FocusedBackground"
    ELSE "Unknown"
UnknownKeys(cs, fs) == { i \in DOMAIN cs : SamplePart(cs[i][1], fs) = "Unknown" }

SampleProperty ==
    [ class |-> "Class", instance |-> "Instance", window_role |-> "WindowRole",
      title |-> "Title", transient_for |-> "TransientFor", machine |-> "Machine" ]
Recognized(ps) == { i \in DOMAIN ps : ps[i][1] \in DOMAIN SampleProperty }

\* C19: a node with `window_properties` decodes to Some(map) whose keys are
\* the WindowProperty of each of class, instance, window_role, title,
\* transient_for and machine that the object has, each with its string (the
\* empty string for a value that is no string), any other key left out and
\* the decode a success; a node without `window_properties` has None.
C19_WindowProperties ==
    \A k \in DOMAIN log :
        /\ \A ps \in PropertySamples :
            Decoded(log[k], "get_tree", Ser(TreeWithProperties(ps))) =>
                /\ IsOk(log[k].res)
                /\ IsSome(log[k].res[2].window_properties)
                /\ DOMAIN log[k].res[2].window_properties[2]
                        = { SampleProperty[ps[i][1]] : i \in Recognized(ps) }
                /\ \A i \in Recognized(ps) :
                      log[k].res[2].window_properties[2][SampleProperty[ps[i][1]]]
                        = IF ps[i][2][1] = "str" THEN ps[i][2][2] ELSE <<>>
        /\ Decoded(log[k], "get_tree", Ser(SampleTree)) =>
                /\ IsOk(log[k].res)
                /\ log[k].res[2].window_properties = None
C19_Witness ==
    /\ Len(log) = 1
    /\ log[1].op = "get_tree"
    /\ IsOk(log[1].res)
    /\ IsSome(log[1].res[2].window_properties)
    /\ DOMAIN log[1].res[2].window_properties[2]
            = { "Class", "Instance", "WindowRole", "Title", "TransientFor", "Machine" }

\* the pull e decoded a workspace event whose `old` is None
OldIsNone(e) ==
    /\ IsSome(e.res) /\ IsOk(e.res[2])
    /\ e.res[2][2].variant = "WorkspaceEvent"
    /\ e.res[2][2].info.old = None

\* C20 as the text has it: each of the node's `percent`, the node's
\* `window`, the output's `current_workspace` and the workspace event's `old`
\* may be left out of the JSON, and decodes to None in a decode that succeeds.
C20_Original ==
    \A k \in DOMAIN log :
        /\ Decoded(log[k], "get_tree", NoPercentTree)
              => IsOk(log[k].res) /\ log[k].res[2].percent = None
        /\ Decoded(log[k], "get_tree", NoWindowTree)
              => IsOk(log[k].res) /\ log[k].res[2].window = None
        /\ Decoded(log[k], "get_outputs", NoCurrentWorkspaceOutput)
              => IsOk(log[k].res) /\ log[k].res[2].outputs[1].current_workspace = None
        /\ Pulled_event(log[k], << 0, NoOldEvent >>) => OldIsNone(log[k])

\* C20, amended: a null `percent`, `window`, `current_workspace` or `old`
\* decodes to None in a decode that succeeds, and so does a workspace event
\* that has no `old`; a node without `percent` or without `window`, and an
\* output without `current_workspace`, do not decode: the method panics.
C20_OptionalFields ==
    \A k \in DOMAIN log :
        /\ Decoded(log[k], "get_tree", NullPercentTree)
              => IsOk(log[k].res) /\ log[k].res[2].percent = None
        /\ Decoded(log[k], "get_tree", Ser(SampleTree))
              => /\ IsOk(log[k].res)
                 /\ log[k].res[2].window = None
                 /\ IsSome(log[k].res[2].percent)
        /\ Decoded(log[k], "get_outputs", GoodReply("get_outputs"))
              => IsOk(log[k].res) /\ log[k].res[2].outputs[1].current_workspace = None
        /\ Decoded(log[k], "get_outputs", NamedCurrentWorkspaceOutput)
              => /\ IsOk(log[k].res)
                 /\ log[k].res[2].outputs[1].current_workspace = Some(T("1"))
        /\ Pulled_event(log[k], << 0, NullOldEvent >>) => OldIsNone(log[k])
        /\ Pulled_event(log[k], << 0, NoOldEvent >>) => OldIsNone(log[k])
        /\ (\/ Decoded(log[k], "get_tree", NoPercentTree)
            \/ Decoded(log[k], "get_tree", NoWindowTree)
            \/ Decoded(log[k], "get_outputs", NoCurrentWorkspaceOutput))
              => log[k].res = Panic("unwrap") /\ pc = "aborted"
C20_Witness ==
    /\ Len(log) = 1
    /\ Pulled_event(log[1], << 0, NoOldEvent >>)
    /\ OldIsNone(log[1])

\* C21 as the text has it: a node without `nodes`, `floating_nodes` or
\* `focus` decodes with the empty list in its place, and a node without any
\* other field of Node does not decode.
C21_Original ==
    \A k \in DOMAIN log :
        /\ \A f \in ArrayFields :
              Decoded(log[k], "get_tree", TreeWithout(f))
                => IsOk(log[k].res) /\ log[k].res[2][f] = <<>>
        /\ Decoded(log[k], "get_tree", Ser(PropertiedTree))
                => IsOk(log[k].res) /\ log[k].res[2].floating_nodes = <<>>
        /\ \A f \in OptionFields \cup RequiredFields :
              Decoded(log[k], "get_tree", TreeWithout(f)) => ~IsOk(log[k].res)

\* C21, amended: a node without `nodes`, `floating_nodes` or `focus` decodes
\* with the empty list in its place; a node without `name` or without
\* `window_properties` decodes with None in its place; a node without any
\* other field that build_tree reads does not decode: the method panics.
C21_AbsentNodeFields ==
    \A k \in DOMAIN log :
        /\ Decoded(log[k], "get_tree", Ser(PropertiedTree))
              => /\ IsOk(log[k].res)
                 /\ \A f \in ArrayFields : log[k].res[2][f] # <<>>
                 /\ \A f \in OptionFields : IsSome(log[k].res[2][f])
                 /\ log[k].res[2].floating_nodes = <<>>
        /\ Decoded(log[k], "get_tree", Ser(FloatingTree))
              => /\ IsOk(log[k].res)
                 /\ Len(log[k].res[2].floating_nodes) = 1
                 /\ \A f \in ArrayFields : log[k].res[2][f] = <<>>
        /\ \A f \in ArrayFields :
              Decoded(log[k], "get_tree", TreeWithout(f))
                => IsOk(log[k].res) /\ log[k].res[2][f] = <<>>
        /\ \A f \in OptionFields :
              Decoded(log[k], "get_tree", TreeWithout(f))
                => IsOk(log[k].res) /\ log[k].res[2][f] = None
        /\ \A f \in RequiredFields :
              Decoded(log[k], "get_tree", TreeWithout(f))
                => log[k].res = Panic("unwrap") /\ pc = "aborted"
C21_Witness ==
    /\ Len(log) = 1
    /\ Decoded(log[1], "get_tree", TreeWithout("focus"))
    /\ IsOk(log[1].res)
    /\ log[1].res[2].focus = <<>>
    /\ Len(log[1].res[2].nodes) = 1


\* the i64 of a small number
I64Of(n) == << n < 0, NatDigits(IF n < 0 THEN 0 - n ELSE n) >>

\* the decoded node d has the id, the flags, the focus order and the
\* children of the shape t, child by child at every depth
RECURSIVE Preserves(_, _)
Preserves(d, t) ==
    /\ d.id = I64Of(t.id)
    /\ d.focused = t.focused
    /\ d.urgent = t.urgent
    /\ d.focus = [i \in DOMAIN t.focus |-> I64Of(t.focus[i])]
    /\ Len(d.nodes) = Len(t.nodes)
    /\ \A i \in DOMAIN t.nodes : Preserves(d.nodes[i], t.nodes[i])
    /\ Len(d.floating_nodes) = Len(t.floating_nodes)
    /\ \A i \in DOMAIN t.floating_nodes : Preserves(d.floating_nodes[i], t.floating_nodes[i])

\* C22: build_tree preserves the tree: every node of the JSON decodes to a
\* Node with the same id, focused and urgent, the same focus list in the
\* same order, and nodes and floating_nodes of the same length and order
\* whose elements are the decodings of the children, at every depth.
C22_TreePreserved ==
    \A k \in DOMAIN log : \A t \in TreeShapes :
        Decoded(log[k], "get_tree", Ser(ShapeJson(t)))
            => IsOk(log[k].res) /\ Preserves(log[k].res[2], t)
C22_Witness ==
    /\ Len(log) = 1
    /\ Decoded(log[1], "get_tree", Ser(ShapeJson(WideShape)))
    /\ IsOk(log[1].res)
    /\ Len(log[1].res[2].nodes) = 2
    /\ log[1].res[2].nodes[2].focused
    /\ Len(log[1].res[2].floating_nodes) = 1

\* The focus invariant of a tree (of a shape or of a decoded Node): exactly
\* one node is focused, and the first entries of the focus lists lead from
\* the root to it in at most as many steps as the tree has nodes.
Children(d) == d.nodes \o d.floating_nodes
RECURSIVE FocusedCount(_), FocusedCountAll(_)
FocusedCount(d) == (IF d.focused THEN 1 ELSE 0) + FocusedCountAll(Children(d))
FocusedCountAll(ds) ==
    IF ds = <<>> THEN 0 ELSE FocusedCount(Head(ds)) + FocusedCountAll(Tail(ds))
RECURSIVE NodeCount(_), NodeCountAll(_)
NodeCount(d) == 1 + NodeCountAll(Children(d))
NodeCountAll(ds) == IF ds = <<>> THEN 0 ELSE NodeCount(Head(ds)) + NodeCountAll(Tail(ds))
RECURSIVE ReachesFocused(_, _)
ReachesFocused(d, steps) ==
    \/ d.focused
    \/ /\ steps > 0
       /\ d.focus # <<>>
       /\ \E i \in DOMAIN Children(d) :
            /\ Children(d)[i].id = d.focus[1]
            /\ ReachesFocused(Children(d)[i], steps - 1)
WellFocused(d) == FocusedCount(d) = 1 /\ ReachesFocused(d, NodeCount(d))

NonStrings(ps) == { i \in Recognized(ps) : ps[i][2][1] # "str" }

\* C24: a recognized window-property key whose value is not a string (null,
\* a number, a boolean, an array) does not fail the decode: the decoded map
\* has the key, with the empty string as its value.
C24_NonStringProperty ==
    \A k \in DOMAIN log : \A ps \in PropertySamples :
        Decoded(log[k], "get_tree", Ser(TreeWithProperties(ps))) =>
            \A i \in NonStrings(ps) :
                /\ IsOk(log[k].res)
                /\ IsSome(log[k].res[2].window_properties)
                /\ SampleProperty[ps[i][1]] \in DOMAIN log[k].res[2].window_properties[2]
                /\ log[k].res[2].window_properties[2][SampleProperty[ps[i][1]]] = <<>>

C24_Witness ==
    /\ Len(log) = 1
    /\ \E ps \in PropertySamples :
         /\ Decoded(log[1], "get_tree", Ser(TreeWithProperties(ps)))
         /\ \E i \in NonStrings(ps) : ps[i] = << "transient_for", JNull >>
    /\ IsOk(log[1].res)
    /\ log[1].res[2].window_properties[2]["TransientFor"] = <<>>
    /\ log[1].res[2].window_properties[2]["Class"] = T("Firefox")

----------------------------------------------------------------------------
(* Formatting an error with Display, as examples/hovered_window.rs does on  *)
(* an error that listen() yields, and as any caller may with `{}`.          *)
(* A call is a frame [fn, self, arg]: the function, the error it was called *)
(* on, and what the call it made has returned to it (None before that).     *)
(* The stack holds MaxStack frames; a call beyond them ends the process.    *)

IoErrorKinds == { "NotFound", "ConnectionRefused", "BrokenPipe", "UnexpectedEof" }
MessageErrors ==
    { [ty |-> "MessageError", variant |-> v, cause |-> c] :
        v \in { "Send", "Receive" }, c \in IoErrorKinds }
        \cup { [ty |-> "MessageError", variant |-> "JsonCouldntParse", cause |-> "json"] }
EstablishErrors ==
    { [ty |-> "EstablishError", variant |-> v, cause |-> c] :
        v \in { "GetSocketPathError", "SocketError" }, c \in IoErrorKinds }

Frame(fn, self) == [fn |-> fn, self |-> self, arg |-> None]
Top == stack[Len(stack)]
\* the callee returns v to the frame that called it
ReturnTo(v) ==
    [stack EXCEPT ![Len(stack) - 1].arg = Some(v)]

Abort(why) == << "Abort", why >>

\* the caller holds an error e: main of hovered_window.rs in the arm Err(e)
\* of its loop (a MessageError), or any caller of the library
DisplayInit ==
    /\ features = {}
    /\ role \in { "hovered_window", "caller" }
    /\ pc = "idle"
    /\ cur = NoRequest
    /\ tx = <<>>
    /\ rx = <<>>
    /\ chan = "open"
    /\ wire = <<>>
    /\ log = <<>>
    /\ \E e \in (IF role = "hovered_window" THEN MessageErrors
                  ELSE MessageErrors \cup EstablishErrors) :
            stack = << Frame("main", e) >>

\* println!("Error: {}", e): the call of Display::fmt on e
println ==
    /\ pc = "idle"
    /\ log = <<>>
    /\ Len(stack) = 1
    /\ stack' = Append(stack, Frame("fmt", Top.self))
    /\ pc' = "formatting"
    /\ UNCHANGED << features, role, cur, tx, rx, chan, wire, log >>

\* Display::fmt of EstablishError and of MessageError:
\* write!(f, "{}", self.to_string()) evaluates self.to_string(), then writes
\* what it returned to f and returns to its caller
fmt ==
    /\ pc = "formatting"
    /\ Top.fn = "fmt"
    /\ Len(stack) < MaxStack
    /\ IF Top.arg = None
       THEN /\ stack' = Append(stack, Frame("to_string", Top.self))
            /\ UNCHANGED << pc, log >>
       ELSE /\ stack' = SubSeq(ReturnTo(Unwrap(Top.arg)), 1, Len(stack) - 1)
            /\ IF stack[Len(stack) - 1].fn = "main"
               THEN /\ pc' = "idle"
                    /\ log' = Append(log, Entry(Request("println", 0, <<>>),
                                                Ok(Unwrap(Top.arg)), None, 0))
               ELSE UNCHANGED << pc, log >>
    /\ UNCHANGED << features, role, cur, tx, rx, chan, wire >>

\* ToString::to_string of a type that is Display: Display::fmt(self, ..) into
\* a new String, which it returns once fmt has returned
to_string ==
    /\ pc = "formatting"
    /\ Top.fn = "to_string"
    /\ Len(stack) < MaxStack
    /\ IF Top.arg = None
       THEN stack' = Append(stack, Frame("fmt", Top.self))
       ELSE stack' = SubSeq(ReturnTo(Unwrap(Top.arg)), 1, Len(stack) - 1)
    /\ UNCHANGED << features, role, pc, cur, tx, rx, chan, wire, log >>

\* a call with the stack used up: the process is killed
StackOverflow ==
    /\ pc = "formatting"
    /\ Len(stack) = MaxStack
    /\ Top.arg = None
    /\ pc' = "aborted"
    /\ log' = Append(log, Entry(Request("println", 0, <<>>), Abort("stack overflow"),
                                None, 0))
    /\ UNCHANGED << features, role, cur, tx, rx, chan, wire, stack >>

DisplayNext == println \/ fmt \/ to_string \/ StackOverflow

SpecDisplay == DisplayInit /\ [][DisplayNext]_vars

\* C25: formatting a MessageError or an EstablishError with Display
\* terminates with text: it never uses up the stack, and no call of fmt runs
\* inside a call of fmt on the same error.
C25_DisplayTerminates ==
    /\ pc # "aborted"
    /\ \A i, j \in DOMAIN stack :
            i < j /\ stack[i].fn = "fmt" /\ stack[j].fn = "fmt"
                => stack[i].self # stack[j].self

\* the call e was handed an envelope whose kind has the event bit
GotEvent(e) == IsSome(e.got) /\ Unwrap(e.got)[1][1] >= 32768

\* C26: a subscribe that is handed an event envelope where it awaits its
\* reply aborts on the kind assertion: it returns no Subscribe value and no
\* error, no call follows it, and the thread is gone.
C26_SubscribeMeetsEvent ==
    \A k \in DOMAIN log :
        log[k].op = "subscribe" /\ GotEvent(log[k])
            => /\ log[k].res = Panic("assert_eq")
               /\ k = Len(log)
               /\ pc = "aborted"

\* a first subscribe succeeded, an event of the categories it asked for came
\* before the reply to the second
C26_Witness ==
    /\ Len(log) = 2
    /\ log[1].op = "subscribe" /\ log[1].res = Ok([success |-> TRUE])
    /\ log[2].op = "subscribe" /\ GotEvent(log[2])
    /\ \E c \in 0 .. 6 : Unwrap(log[2].got) = << EventKind(c), GoodEvent(c) >>
    /\ pc = "aborted"

\* the kind with bit 31 flipped
FlipEventBit(ty) == << (ty[1] + 32768) % Half, ty[2] >>
\* what a pull makes of the envelope (ty, payload)
PullOf(ty, payload, fs) ==
    EventIterator_next([st |-> "ok", ty |-> ty, payload |-> payload], fs)
\* the categories a build with the features fs knows
KnownCategories(fs) == IF "i3-4-14" \in fs THEN 0 .. 6 ELSE 0 .. 5

\* C27: a pull does not look at the event bit: its result is the one it gives
\* for the same payload under the kind with bit 31 flipped, and an envelope of
\* a kind k without the bit that carries an event of category k is yielded as
\* that event (for the categories the build knows).
C27_MarkerBitIgnored ==
    \A k \in DOMAIN log :
        log[k].op = "listen" /\ IsSome(log[k].got) =>
            /\ log[k].res = PullOf(FlipEventBit(Unwrap(log[k].got)[1]),
                                   Unwrap(log[k].got)[2], features)
            /\ \A c \in KnownCategories(features) :
                  log[k].got = Some(<< U32(c), GoodEvent(c) >>)
                      => /\ IsOk(log[k].res[2])
                         /\ log[k].res[2][2].variant = VariantOf(c)

\* a pull was handed a window event under kind 3, without the event bit
C27_Witness ==
    /\ Len(log) = 1
    /\ log[1].op = "listen"
    /\ log[1].got = Some(<< U32(3), GoodEvent(3) >>)
    /\ IsOk(log[1].res[2])
    /\ log[1].res[2][2].variant = "WindowEvent"

\* the unknown key of the sample cs that the loop over the sorted keys
\* reaches last
LastUnknown(cs, fs) ==
    CHOOSE i \in UnknownKeys(cs, fs) :
        \A j \in UnknownKeys(cs, fs) \ {i} : StrLess(T(cs[j][1]), T(cs[i][1]))

\* C28: the decoded `colors` has one entry per ColorableBarPart, so at most
\* one under Unknown: when several keys of the input are unknown to the build
\* the map has fewer entries than the input has keys, and Unknown holds the
\* value of the last of them in key order; the values of the others are lost.
C28_OneUnknownEntry ==
    \A k \in DOMAIN log : \A cs \in ColorSamples :
        Decoded(log[k], "get_bar_config", Ser(BarConfigWith(cs))) =>
            /\ IsOk(log[k].res)
            /\ Cardinality(DOMAIN log[k].res[2].colors) <= Len(cs)
            /\ Cardinality(UnknownKeys(cs, features)) >= 2 =>
                /\ Cardinality(DOMAIN log[k].res[2].colors)
                        = Len(cs) + 1 - Cardinality(UnknownKeys(cs, features))
                /\ log[k].res[2].colors["Unknown"]
                        = T(cs[LastUnknown(cs, features)][2])

\* three keys, two of them unknown, decoded to two entries
C28_Witness ==
    /\ Len(log) = 1
    /\ \E cs \in ColorSamples :
        /\ Decoded(log[1], "get_bar_config", Ser(BarConfigWith(cs)))
        /\ Len(cs) = 3
        /\ Cardinality(UnknownKeys(cs, features)) = 2
    /\ IsOk(log[1].res)
    /\ DOMAIN log[1].res[2].colors = { "Background", "Unknown" }
    /\ log[1].res[2].colors["Unknown"] = T("#c0c0c0")

\* the frame of kind 6 with no payload: "i3-ipc", length 0, kind 6
BarIdsFrame == << 105, 51, 45, 105, 112, 99, 0, 0, 0, 0, 6, 0, 0, 0 >>

\* C29: get_bar_config with the empty string as id writes the very frame
\* get_bar_ids writes (kind 6, no payload), and what comes back is decoded as
\* a bar configuration: the list of bar ids, which is the reply to that
\* frame, makes the call panic, and a bar configuration is returned.
C29_EmptyIdIsBarIds ==
    /\ pc = "awaitReply" /\ cur \in { get_bar_ids_request, get_bar_config_request(<<>>) }
        => tx[Len(tx)] = BarIdsFrame
    /\ \A k \in DOMAIN log :
        log[k].op = "get_bar_config"
                /\ log[k].payload = get_bar_config_request(<<>>).payload =>
            /\ Decoded(log[k], "get_bar_config", GoodReply("get_bar_ids"))
                    => log[k].res = Panic("unwrap")
            /\ Decoded(log[k], "get_bar_config", GoodReply("get_bar_config"))
                    => IsOk(log[k].res) /\ log[k].res[2].id = T("bar-0")

\* get_bar_config("") wrote the frame and was answered with the bar ids
C29_Witness ==
    /\ Len(log) = 1
    /\ log[1].op = "get_bar_config" /\ log[1].payload = <<>>
    /\ tx = << BarIdsFrame >>
    /\ Decoded(log[1], "get_bar_config", GoodReply("get_bar_ids"))
    /\ log[1].res = Panic("unwrap")

\* C30: an integer field decoded into an i32 (the node's `window` and
\* `current_border_width`, the x, y, width and height of a rectangle, the
\* workspace's `num`, the numbers of the version) is the JSON integer when
\* that lies in the signed 32-bit range, and otherwise (for an integer that
\* as_i64 holds) the integer wrapped modulo 2^32: the decode succeeds, and a
\* window id from 2^31 to 2^32 - 1 comes out negative.
C30_Int32Wraps ==
    \A k \in DOMAIN log : \A s \in IntSamples :
        /\ Decoded(log[k], "get_tree", IntTree(s.json)) =>
            /\ IsOk(log[k].res)
            /\ log[k].res[2].window = Some(s.i32)
            /\ log[k].res[2].current_border_width = s.i32
            /\ log[k].res[2].rect = << s.i32, 0, 1920, s.i32 >>
        /\ Decoded(log[k], "get_workspaces", IntWorkspaces(s.json)) =>
            /\ IsOk(log[k].res)
            /\ log[k].res[2].workspaces[1].num = s.i32
            /\ log[k].res[2].workspaces[1].rect = << s.i32, 0, 1920, s.i32 >>
        /\ Decoded(log[k], "get_version", IntVersion(s.json)) =>
            /\ IsOk(log[k].res)
            /\ log[k].res[2].major = s.i32
            /\ log[k].res[2].minor = 14
            /\ log[k].res[2].patch = s.i32

\* a window id of 2^31 decoded to the least i32
C30_Witness ==
    /\ Len(log) = 1
    /\ Decoded(log[1], "get_tree", IntTree(JNum(FALSE, << 2, 1, 4, 7, 4, 8, 3, 6, 4, 8 >>)))
    /\ IsOk(log[1].res)
    /\ log[1].res[2].window # None
    /\ log[1].res[2].window[2] < 0
    /\ log[1].res[2].window[2] + 2147483647 = 0 - 1
============================================================================
